---- MODULE Spec2Model ----
(***************************************************************************)
(* Model of the podman-gitops reconciliation pipeline:                     *)
(*   ApplicationManager (src/src/core/app_manager.py),                     *)
(*   QuadletHandler     (src/src/core/quadlet_handler.py),                 *)
(*   GitManager         (src/src/core/git_manager.py),                     *)
(*   StateManager       (src/src/state/manager.py).                        *)
(* External collaborators (git, systemctl, podman health probes, the file  *)
(* system) are nondeterministic choices over the results their callers     *)
(* distinguish: return true, return false, raise.  StateManager writes     *)
(* are modelled as they behave on a working database.                      *)
(***************************************************************************)
EXTENDS Integers, Sequences, FiniteSets, TLC

\* ---------------------------------------------------------------- bounds
\* process_application calls in Spec
MaxRuns == 2
\* process_application calls and operator calls in SpecOps
MaxOpRuns == 2
MaxOps == 2
\* external calls that do not succeed, over one behaviour
MaxFaults == 2
\* check_for_changes calls between two reset_cycle calls
MaxChecks == 3

\* ------------------------------------------------------- configuration
\* config.applications.enabled; "ghost" is enabled but has no app config
Enabled == <<"app1", "app2", "ghost">>
AppNames == {"app1", "app2", "ghost"}
app_configs == {"app1", "app2"}

None == 0

\* ApplicationConfig.description of the configured applications
config_description(a) == IF a = "app1" THEN "Application one" ELSE "Application two"

F(stem, suffix) == [stem |-> stem, suffix |-> suffix]

\* the files found in each application's quadlet_dir
QuadletDir(a) ==
  IF a = "app1"
    THEN {F("net", ".network"), F("data", ".volume"), F("base", ".image"),
          F("cache", ".container"), F("app", ".env"), F("settings", ".json")}
    ELSE IF a = "app2"
      THEN {F("web", ".container"), F("db", ".container"), F("api", ".container")}
      ELSE {}

AllFiles == UNION {QuadletDir(a) : a \in AppNames}

\* ------------------------------------------------------ QuadletHandler
QUADLET_TYPES == <<[type |-> "container", ext |-> ".container"],
                   [type |-> "image", ext |-> ".image"],
                   [type |-> "network", ext |-> ".network"],
                   [type |-> "volume", ext |-> ".volume"]>>

CONFIG_PATTERNS == <<[kind |-> "name", stem |-> "settings", suffix |-> ".json"],
                     [kind |-> "name", stem |-> "config", suffix |-> ".json"],
                     [kind |-> "glob", stem |-> "*", suffix |-> ".env"],
                     [kind |-> "glob", stem |-> "*", suffix |-> ".toml"],
                     [kind |-> "glob", stem |-> "*", suffix |-> ".yaml"],
                     [kind |-> "glob", stem |-> "*", suffix |-> ".yml"]>>

RECURSIVE GetFileTypeFrom(_, _)
GetFileTypeFrom(f, i) ==
  IF i > Len(QUADLET_TYPES) THEN "config"
  ELSE IF f.suffix = QUADLET_TYPES[i].ext THEN QUADLET_TYPES[i].type
  ELSE GetFileTypeFrom(f, i + 1)

_get_file_type(f) == GetFileTypeFrom(f, 1)

Perms(S) == {p \in [1..Cardinality(S) -> S] : \A i, j \in 1..Cardinality(S) : p[i] = p[j] => i = j}

Glob(dir, pat) ==
  {f \in dir : /\ f.suffix = pat.suffix
               /\ (pat.kind = "name" => f.stem = pat.stem)}

RECURSIVE GlobAll(_, _, _)
GlobAll(dir, pats, i) ==
  IF i > Len(pats) THEN {<<>>}
  ELSE {p \o rest : p \in Perms(Glob(dir, pats[i])), rest \in GlobAll(dir, pats, i + 1)}

ExtPatterns == [i \in 1..Len(QUADLET_TYPES) |->
                 [kind |-> "glob", stem |-> "*", suffix |-> QUADLET_TYPES[i].ext]]

\* every list find_quadlet_files can return for a directory: the globs run
\* in the order of QUADLET_TYPES, then CONFIG_PATTERNS; the order inside one
\* glob is the file system's
find_quadlet_files(dir) ==
  {q \o c : q \in GlobAll(dir, ExtPatterns, 1), c \in GlobAll(dir, CONFIG_PATTERNS, 1)}

\* faulty variant: container units are handled before their dependencies
processing_order_containers_first == <<"container", "network", "volume", "image", "config">>

processing_order == <<"network", "volume", "image", "container", "config">>

files_by_type(quadlet_files, t) == SelectSeq(quadlet_files, LAMBDA f : _get_file_type(f) = t)

RECURSIVE OrderedFrom(_, _)
OrderedFrom(quadlet_files, i) ==
  IF i > Len(processing_order) THEN <<>>
  ELSE files_by_type(quadlet_files, processing_order[i]) \o OrderedFrom(quadlet_files, i + 1)

\* the sequence in which the nested loops of process_and_deploy_app_quadlets
\* visit the files
ProcessingSequence(quadlet_files) == OrderedFrom(quadlet_files, 1)

\* --------------------------------------------------------- StateManager
VARIABLE applications
VARIABLE deployments
VARIABLE services
VARIABLE error_log
VARIABLE health_checks

\* finished: the ids finish_deployment has been applied to, in call order
VARIABLE finished

storeVars == <<applications, deployments, services, error_log, health_checks, finished>>

\* a NULL description
NoDescription == ""

\* register_application: the row is inserted, or its description (and
\* config_hash, last_updated) overwritten with the arguments of this call
register_application(apps, a, description) ==
  [k \in DOMAIN apps \cup {a} |->
     IF k = a THEN [description |-> description] ELSE apps[k]]

\* datetime.now() of a write: later than the timestamp of every stored row
Now(deps) ==
  IF deps = <<>> THEN 1
  ELSE 1 + (CHOOSE t \in {deps[i].timestamp : i \in DOMAIN deps} :
              \A i \in DOMAIN deps : deps[i].timestamp <= t)

Row(a, commit, status, msg, timestamp) ==
  [app_name |-> a, commit_hash |-> commit, status |-> status, error_message |-> msg,
   timestamp |-> timestamp]

start_deployment(deps, a, commit) ==
  Append(deps, Row(a, commit, "in_progress", "", Now(deps)))

\* faulty variant: the latest row is overwritten instead of a new one inserted
record_deployment_overwrite(deps, a, commit, status, msg) ==
  IF deps = <<>> THEN Append(deps, Row(a, commit, status, msg, Now(deps)))
  ELSE [deps EXCEPT ![Len(deps)] = Row(a, commit, status, msg, Now(deps))]

record_deployment(deps, a, commit, status, msg) ==
  Append(deps, Row(a, commit, status, msg, Now(deps)))

\* faulty variant: the error message is not stored
finish_deployment_without_message(deps, id, status, msg) ==
  IF id \in DOMAIN deps
    THEN [deps EXCEPT ![id].status = status, ![id].timestamp = Now(deps)]
    ELSE deps

\* finish_deployment rewrites status, error_message and timestamp of the row
finish_deployment(deps, id, status, msg) ==
  IF id \in DOMAIN deps
    THEN [deps EXCEPT ![id].status = status, ![id].error_message = msg,
                      ![id].timestamp = Now(deps)]
    ELSE deps

\* faulty variant: a failed service is stored as stopped
update_service_failed_as_stopped(svcs, a, s, state, dep, container) ==
  LET stored == IF state = "failed" THEN "stopped" ELSE state IN
  IF <<a, s>> \in DOMAIN svcs
    THEN [svcs EXCEPT ![<<a, s>>] =
            [state |-> stored,
             deployment_id |-> IF dep # None THEN dep ELSE @.deployment_id,
             container_id |-> IF container # None THEN container ELSE @.container_id]]
    ELSE [k \in DOMAIN svcs \cup {<<a, s>>} |->
            IF k = <<a, s>>
              THEN [state |-> stored, deployment_id |-> dep, container_id |-> container]
              ELSE svcs[k]]

\* faulty variant: the row refers to the deployment after the one passed in
update_service_next_deployment(svcs, a, s, state, dep, container) ==
  LET stored == IF dep # None THEN dep + 1 ELSE dep IN
  IF <<a, s>> \in DOMAIN svcs
    THEN [svcs EXCEPT ![<<a, s>>] =
            [state |-> state,
             deployment_id |-> IF dep # None THEN stored ELSE @.deployment_id,
             container_id |-> IF container # None THEN container ELSE @.container_id]]
    ELSE [k \in DOMAIN svcs \cup {<<a, s>>} |->
            IF k = <<a, s>>
              THEN [state |-> state, deployment_id |-> stored, container_id |-> container]
              ELSE svcs[k]]

\* faulty variant: a call without deployment_id clears the stored reference
update_service_clearing_deployment(svcs, a, s, state, dep, container) ==
  [k \in DOMAIN svcs \cup {<<a, s>>} |->
     IF k = <<a, s>>
       THEN [state |-> state, deployment_id |-> dep, container_id |-> container]
       ELSE svcs[k]]

update_service(svcs, a, s, state, dep, container) ==
  IF <<a, s>> \in DOMAIN svcs
    THEN [svcs EXCEPT ![<<a, s>>] =
            [state |-> state,
             deployment_id |-> IF dep # None THEN dep ELSE @.deployment_id,
             container_id |-> IF container # None THEN container ELSE @.container_id]]
    ELSE [k \in DOMAIN svcs \cup {<<a, s>>} |->
            IF k = <<a, s>>
              THEN [state |-> state, deployment_id |-> dep, container_id |-> container]
              ELSE svcs[k]]

\* faulty variant: the nested update_service(.., "error") is applied
set_last_error_services_applied(svcs, a, s) ==
  IF <<a, s>> \in DOMAIN svcs THEN [svcs EXCEPT ![<<a, s>>].state = "error"] ELSE svcs

\* set_last_error inserts the error_log row on its own connection and, with
\* that write transaction still open, calls update_service(.., "error"),
\* which opens a second connection: its write is refused ("database is
\* locked"), update_service catches the sqlite3.Error and returns False, so
\* the services table is left as it was.
set_last_error_services(svcs, a, s) == svcs

set_last_error_log(log, a, s, msg) ==
  log \cup {[app_name |-> a, service_name |-> s, error_message |-> msg]}

add_health_check(hc, a, s, status) ==
  hc \cup {[app_name |-> a, service_name |-> s, status |-> status]}

get_app_services(svcs, a) == {k[2] : k \in {x \in DOMAIN svcs : x[1] = a}}

\* the default of the limit parameter
DefaultLimit == 10

Limits == {1, DefaultLimit}

\* ORDER BY timestamp DESC over the rows ids
RECURSIVE OrderByTimestampDesc(_, _)
OrderByTimestampDesc(deps, ids) ==
  IF ids = {} THEN <<>>
  ELSE LET latest == CHOOSE i \in ids : \A j \in ids : deps[j].timestamp <= deps[i].timestamp
       IN  <<latest>> \o OrderByTimestampDesc(deps, ids \ {latest})

\* the ids of the rows get_deployment_history(app_name, limit) returns, in
\* the order of the result; an empty app_name selects every application
get_deployment_history(deps, a, limit) ==
  LET ids == {i \in DOMAIN deps : a = "" \/ deps[i].app_name = a}
      ordered == OrderByTimestampDesc(deps, ids)
  IN  SubSeq(ordered, 1, IF Len(ordered) < limit THEN Len(ordered) ELSE limit)


\* ------------------------------------------------ file system, git, run
VARIABLE systemd_dir
VARIABLE backups
VARIABLE processed_dir

fsVars == <<systemd_dir, backups, processed_dir>>

\* git_ops: whether ApplicationManager was given a GitOperations;
\* remote_differs: whether the remote branch is at another commit than the
\* working copy; repositories, checked_repos, repos_with_changes: GitManager;
\* handles: the applications that hold the result of get_git_ops;
\* fetch_failed: the repositories whose fetch failed since the last reset_cycle;
\* reset_from: the two sets as the last reset_cycle found them;
\* fetches, returned_values, checks: per repository, the has_changes calls,
\* the values check_for_changes returned and the number of check_for_changes
\* calls since the last reset_cycle
VARIABLE git_ops
VARIABLE remote_differs
VARIABLE repositories
VARIABLE checked_repos
VARIABLE repos_with_changes
VARIABLE handles
VARIABLE fetches
VARIABLE fetch_failed
VARIABLE reset_from
VARIABLE returned_values
VARIABLE checks

gitVars == <<git_ops, remote_differs, repositories, checked_repos, repos_with_changes,
             handles, fetches, fetch_failed, reset_from, returned_values, checks>>

VARIABLE pc
VARIABLE cur
VARIABLE deployment_id
VARIABLE quadlet_queue
VARIABLE deployed_services
VARIABLE idx
VARIABLE all_started
VARIABLE all_healthy
VARIABLE ret
VARIABLE processed_apps

runVars == <<pc, cur, deployment_id, quadlet_queue, deployed_services, idx,
             all_started, all_healthy, ret, processed_apps>>

\* history of the current process_application call
VARIABLE runs
VARIABLE calls
VARIABLE copied
VARIABLE quadlet_result
VARIABLE skip_eligible
VARIABLE raised

histVars == <<runs, calls, copied, quadlet_result, skip_eligible, raised>>

VARIABLE op_pc
VARIABLE op_app
VARIABLE op_queue
VARIABLE op_success
VARIABLE op_restart
VARIABLE ops
VARIABLE op_calls

\* faults: how many external calls have not succeeded so far
VARIABLE faults

opVars == <<op_pc, op_app, op_queue, op_success, op_restart, ops, op_calls>>

\* an external call may answer r when r is its success answer or the fault
\* budget is not used up
Allowed(r, ok) == r = ok \/ faults < MaxFaults

Charge(r, ok) == IF r = ok THEN faults ELSE faults + 1

\* HealthChecker.wait_for_healthy called on its own: the answers the checks of
\* the window give, and what the call returned
VARIABLE wait_polls
VARIABLE wait_result

waitVars == <<wait_polls, wait_result>>

\* process_all_applications: the list get_app_list returned, the position of
\* the for loop, the results dictionary and the process_application calls made
VARIABLE enabled
VARIABLE pass_pc
VARIABLE pass_idx
VARIABLE results
VARIABLE invoked

passVars == <<enabled, pass_pc, pass_idx, results, invoked>>

\* main: the position in the service loop, the running flag, the seconds
\* slept in the except handler, the passes begun, the reset_cycle and
\* process_application calls of the current pass, and the exit code
VARIABLE main_pc
VARIABLE running
VARIABLE slept
VARIABLE passes
VARIABLE reset_calls
VARIABLE main_invoked
VARIABLE exit_code

mainVars == <<main_pc, running, slept, passes, reset_calls, main_invoked, exit_code>>

\* the status operations: what the last call returned, and the calls made
VARIABLE status_result
VARIABLE status_calls

statusVars == <<status_result, status_calls>>

\* one manifest file on its way through process_quadlet_file and
\* deploy_processed_file: the application's environment map, the staging
\* directory and the managed directory with their contents, the last call and
\* how many calls were made
VARIABLE file_env
VARIABLE staged
VARIABLE managed
VARIABLE file_call
VARIABLE file_pc

fileVars == <<file_env, staged, managed, file_call, file_pc>>

\* update_service and get_service_state called on their own: the last
\* update_service call, the state passed by the most recent update_service call
\* for each key, and the last get_service_state call with what it returned
VARIABLE svc_call
VARIABLE svc_last
VARIABLE svc_read

serviceVars == <<svc_call, svc_last, svc_read>>

loopVars == <<waitVars, passVars, mainVars, statusVars, fileVars, serviceVars, serviceVars>>

vars == <<storeVars, fsVars, gitVars, runVars, histVars, opVars, loopVars, faults>>

\* --------------------------------------------------------------- git
RepoUrls == {"url1", "url2"}

\* git_config.repository_url of the handle requested for an application
repository_url(a) == IF a = "ghost" THEN "url2" ELSE "url1"

\* the repository of the single GitOperations handed to ApplicationManager
MainUrl == "url1"

\* faulty variant: a failed fetch is answered False
has_changes_false_on_error(differs, fetch_ok) == IF fetch_ok THEN differs ELSE FALSE

\* GitOperations.has_changes: fetch, then local_commit != remote_commit;
\* a GitCommandError during the fetch is answered True
has_changes(differs, fetch_ok) == IF fetch_ok THEN differs ELSE TRUE

\* GitOperations.pull_changes returns True, raises GitCommandError from the
\* pull, or raises from Repo(repo_dir) when the working copy cannot be opened
\* (self.repo stays unset)
PullResults == {"true", "raise", "no_repository"}

\* GitOperations.get_current_commit
get_current_commit == "hexsha"

LastDeployment(deps, a) ==
  LET ids == {i \in DOMAIN deps : deps[i].app_name = a}
  IN IF ids = {} THEN None ELSE CHOOSE i \in ids : \A j \in ids : j <= i

DeploymentStatus(deps, id) == IF id \in DOMAIN deps THEN deps[id].status ELSE "none"

\* ------------------------------------------------- process_application
Ev(op, arg, res) == [op |-> op, arg |-> arg, res |-> res]

CommitHash == IF git_ops THEN get_current_commit ELSE "local"

\* the except handler of process_application: a new failed row is recorded;
\* record_deployment registers the application again, without a description
ExceptHandler ==
  /\ applications' = register_application(applications, cur, NoDescription)
  /\ deployments' = record_deployment(deployments, cur, CommitHash, "failed", "exception")
  /\ UNCHANGED finished
  /\ ret' = FALSE
  /\ raised' = TRUE
  /\ pc' = "returned"

Init ==
  /\ applications = [a \in {} |-> [description |-> NoDescription]]
  /\ deployments = <<>>
  /\ services = <<>>
  /\ error_log = {}
  /\ health_checks = {}
  /\ finished = <<>>
  /\ systemd_dir = {}
  /\ backups = {}
  /\ processed_dir = {}
  /\ git_ops \in BOOLEAN
  /\ remote_differs = [u \in RepoUrls |-> FALSE]
  /\ repositories = {}
  /\ handles = {}
  /\ checked_repos = {}
  /\ repos_with_changes = {}
  /\ fetches = [u \in RepoUrls |-> 0]
  /\ fetch_failed = {}
  /\ reset_from = [checked_repos |-> {}, repos_with_changes |-> {}]
  /\ returned_values = [u \in RepoUrls |-> {}]
  /\ checks = 0
  /\ pc = "idle"
  /\ cur = "app1"
  /\ deployment_id = None
  /\ quadlet_queue = <<>>
  /\ deployed_services = <<>>
  /\ idx = 1
  /\ all_started = TRUE
  /\ all_healthy = TRUE
  /\ ret = FALSE
  /\ processed_apps = {}
  /\ runs = 0
  /\ calls = <<>>
  /\ copied = <<>>
  /\ quadlet_result = "none"
  /\ skip_eligible = FALSE
  /\ raised = FALSE
  /\ op_pc = "idle"
  /\ op_app = "app1"
  /\ op_queue = <<>>
  /\ op_success = TRUE
  /\ op_restart = FALSE
  /\ ops = 0
  /\ op_calls = <<>>
  /\ faults = 0
  /\ wait_polls = <<>>
  /\ wait_result = [result |-> FALSE, made |-> <<>>]
  /\ enabled = <<>>
  /\ pass_pc = "idle"
  /\ pass_idx = 1
  /\ results = [a \in {} |-> FALSE]
  /\ invoked = <<>>
  /\ main_pc = "while"
  /\ running = TRUE
  /\ slept = 0
  /\ passes = 0
  /\ reset_calls = 0
  /\ main_invoked = <<>>
  /\ exit_code = <<>>
  /\ status_result = [a \in {} |-> ""]
  /\ status_calls = 0
  /\ file_env = [n \in {} |-> ""]
  /\ staged = [p \in {} |-> <<>>]
  /\ managed = [p \in {} |-> <<>>]
  /\ file_call = [name |-> "", template |-> <<>>, env |-> [n \in {} |-> ""],
                  content |-> <<>>, outcome |-> "", staged |-> FALSE, copied |-> FALSE,
                  ok |-> FALSE]
  /\ file_pc = "config"
  /\ svc_call = [op |-> "", app_name |-> "", service_name |-> "", state |-> "",
                 deployment_id |-> None, container_id |-> None]
  /\ svc_last = [k \in {} |-> ""]
  /\ svc_read = [called |-> FALSE, app_name |-> "", service_name |-> "", result |-> <<>>]

\* what GitManager.check_for_changes would answer for the main repository
\* when the fetch succeeds
ChangeCheck(u) == IF u \in checked_repos THEN u \in repos_with_changes
                  ELSE has_changes(remote_differs[u], TRUE)

\* process_application, lines 73-86: configuration lookup and registration
ProcessEntry(a) ==
  /\ pc = "idle"
  /\ op_pc = "idle"
  /\ runs' = runs + 1
  /\ cur' = a
  /\ copied' = <<>>
  /\ quadlet_result' = "none"
  /\ raised' = FALSE
  /\ skip_eligible' = (/\ a \in app_configs
                       /\ git_ops
                       /\ ~ChangeCheck(MainUrl)
                       /\ DeploymentStatus(deployments, LastDeployment(deployments, a)) = "success")
  /\ deployment_id' = None
  /\ quadlet_queue' = <<>>
  /\ deployed_services' = <<>>
  /\ idx' = 1
  /\ all_started' = TRUE
  /\ all_healthy' = TRUE
  /\ IF a \notin app_configs
       THEN /\ ret' = FALSE
            /\ pc' = "returned"
            /\ calls' = <<>>
            /\ UNCHANGED applications
       ELSE /\ applications' = register_application(applications, a, config_description(a))
            /\ calls' = <<Ev("register_application", a, "true")>>
            /\ pc' = "sync"
            /\ UNCHANGED ret
  /\ UNCHANGED <<deployments, finished, services, error_log, health_checks, fsVars, gitVars,
                 processed_apps, opVars, faults>>

\* a process_application call from a caller that keeps no state of its own
ProcessStart(a) == ProcessEntry(a) /\ UNCHANGED loopVars

\* lines 88-116: pull when a GitOperations is configured, then open the
\* deployment
Sync ==
  /\ pc = "sync"
  /\ \E pull \in PullResults :
       /\ git_ops => Allowed(pull, "true")
       /\ faults' = IF git_ops THEN Charge(pull, "true") ELSE faults
       /\ IF git_ops /\ pull = "raise"
         THEN /\ ExceptHandler
              /\ calls' = Append(calls, Ev("pull_changes", "", "raise"))
              /\ UNCHANGED <<deployment_id, remote_differs>>
         ELSE IF git_ops /\ pull = "no_repository"
           \* the except handler calls get_current_commit, which opens the
           \* working copy again and raises inside the handler's own try:
           \* record_deployment is not reached
           THEN /\ calls' = Append(calls, Ev("pull_changes", "", "no_repository"))
                /\ ret' = FALSE
                /\ raised' = TRUE
                /\ pc' = "returned"
                /\ UNCHANGED <<applications, deployments, deployment_id, remote_differs>>
         ELSE IF git_ops /\ pull = "false"
           THEN /\ applications' = register_application(applications, cur, NoDescription)
                /\ deployments' = record_deployment(deployments, cur, get_current_commit,
                                                    "failed", "Git pull failed")
                /\ calls' = Append(calls, Ev("pull_changes", "", "false"))
                /\ ret' = FALSE
                /\ pc' = "returned"
                /\ UNCHANGED <<deployment_id, remote_differs, raised>>
           ELSE /\ applications' = register_application(applications, cur, NoDescription)
                /\ deployments' = start_deployment(deployments, cur, CommitHash)
                /\ deployment_id' = Len(deployments) + 1
                /\ calls' = IF git_ops
                              THEN calls \o <<Ev("pull_changes", "", "true"),
                                              Ev("start_deployment", cur, "")>>
                              ELSE Append(calls, Ev("start_deployment", cur, ""))
                /\ remote_differs' = IF git_ops
                                       THEN [remote_differs EXCEPT ![MainUrl] = FALSE]
                                       ELSE remote_differs
                /\ pc' = "find"
                /\ UNCHANGED <<ret, raised>>
  /\ UNCHANGED <<services, error_log, health_checks, finished, fsVars,
                 git_ops, repositories, checked_repos, repos_with_changes, handles,
                 fetches, fetch_failed, reset_from, returned_values, checks,
                 cur, quadlet_queue, deployed_services, idx, all_started, all_healthy,
                 processed_apps, runs, copied, quadlet_result, skip_eligible, opVars, loopVars>>


\* quadlet_handler.py 149-166: enumerate the directory (a missing directory
\* is answered with the empty list) and group the files by type
Find ==
  /\ pc = "find"
  /\ \E quadlet_files \in find_quadlet_files(QuadletDir(cur)) \cup {<<>>} :
       /\ quadlet_files = <<>> => faults < MaxFaults
       /\ faults' = IF quadlet_files = <<>> THEN faults + 1 ELSE faults
       /\ IF quadlet_files = <<>>
         THEN /\ quadlet_result' = "true"
              /\ pc' = "reload"
              /\ UNCHANGED quadlet_queue
         ELSE /\ quadlet_queue' = ProcessingSequence(quadlet_files)
              /\ pc' = "deploy"
              /\ UNCHANGED quadlet_result
  /\ calls' = Append(calls, Ev("process_and_deploy_app_quadlets", cur, ""))
  /\ UNCHANGED <<deployments, finished, services, error_log, health_checks, systemd_dir, backups,
                 deployment_id, deployed_services, idx, all_started, all_healthy, ret,
                 processed_apps, copied, raised, applications, gitVars, opVars, loopVars, cur, runs,
                 skip_eligible, processed_dir>>

\* results of handling one file: process_quadlet_file raises before or while
\* staging; deploy_processed_file fails at the copy, or at the chmod after
\* the copy; or both succeed
FileResults == {"ok", "template_error", "copy_error", "chmod_error"}

\* faulty variant: every deployed file is reported as a service
DeployedNameAnyType(names, f) == Append(names, f.stem)

DeployedName(names, f) ==
  IF _get_file_type(f) = "container" THEN Append(names, f.stem) ELSE names

\* quadlet_handler.py 176-200 for the file at the head of the queue, and, when
\* process_and_deploy_app_quadlets returns failure, app_manager.py 126-134
Deploy ==
  /\ pc = "deploy"
  /\ quadlet_queue # <<>>
  /\ LET f == Head(quadlet_queue) IN
     \E r \in FileResults :
       /\ Allowed(r, "ok")
       /\ faults' = Charge(r, "ok")
       /\ processed_dir' = IF r = "template_error" THEN processed_dir
                           ELSE processed_dir \cup {<<cur, f>>}
       /\ backups' = IF r # "template_error" /\ f \in systemd_dir
                       THEN backups \cup {f} ELSE backups
       /\ systemd_dir' = IF r \in {"ok", "chmod_error"} THEN systemd_dir \cup {f}
                         ELSE systemd_dir
       /\ copied' = IF r \in {"ok", "chmod_error"} THEN Append(copied, f) ELSE copied
       /\ IF r = "ok"
            THEN /\ deployed_services' = DeployedName(deployed_services, f)
                 /\ quadlet_queue' = Tail(quadlet_queue)
                 /\ quadlet_result' = IF Tail(quadlet_queue) = <<>> THEN "true" ELSE "none"
                 /\ pc' = IF Tail(quadlet_queue) = <<>> THEN "reload" ELSE "deploy"
                 /\ UNCHANGED <<deployments, finished, ret, calls>>
            ELSE /\ quadlet_result' = "false"
                 /\ deployments' = finish_deployment(deployments, deployment_id, "failed",
                                                     "Failed to process quadlet files")
                 /\ finished' = Append(finished, deployment_id)
                 /\ calls' = Append(calls, Ev("finish_deployment", "", "failed"))
                 /\ ret' = FALSE
                 /\ pc' = "returned"
                 /\ UNCHANGED <<deployed_services, quadlet_queue>>
  /\ UNCHANGED <<services, error_log, health_checks, deployment_id, idx, all_started,
                 all_healthy, processed_apps, raised, applications, gitVars, opVars, loopVars, cur,
                 runs, skip_eligible>>

\* SystemdManager.reload_daemon / start_service / stop_service: exit code 0,
\* nonzero exit code, or _run_command re-raising
SystemdResults == {"true", "false", "raise"}

\* faulty variant: the result of reload_daemon is not looked at
ReloadIgnoringResult ==
  /\ pc = "reload"
  /\ \E r \in {"true", "false"} :
       /\ Allowed(r, "true")
       /\ faults' = Charge(r, "true")
       /\ calls' = Append(calls, Ev("reload_daemon", "", r))
  /\ pc' = "start"
  /\ idx' = 1
  /\ UNCHANGED <<storeVars, fsVars, gitVars, opVars, loopVars, cur, deployment_id, quadlet_queue,
                 deployed_services, all_started, all_healthy, ret, processed_apps, runs,
                 copied, quadlet_result, skip_eligible, raised>>

\* app_manager.py 136-144
Reload ==
  /\ pc = "reload"
  /\ \E r \in SystemdResults :
       /\ Allowed(r, "true")
       /\ faults' = Charge(r, "true")
       /\ calls' = IF r = "false"
                     THEN calls \o <<Ev("reload_daemon", "", r),
                                     Ev("finish_deployment", "", "failed")>>
                     ELSE Append(calls, Ev("reload_daemon", "", r))
       /\ IF r = "true"
            THEN /\ pc' = "start"
                 /\ idx' = 1
                 /\ UNCHANGED <<applications, deployments, finished, ret, raised>>
            ELSE IF r = "false"
              THEN /\ deployments' = finish_deployment(deployments, deployment_id, "failed",
                                                       "Failed to reload systemd daemon")
                   /\ finished' = Append(finished, deployment_id)
                   /\ ret' = FALSE
                   /\ pc' = "returned"
                   /\ UNCHANGED <<applications, idx, raised>>
              ELSE /\ ExceptHandler
                   /\ UNCHANGED idx
  /\ UNCHANGED <<services, error_log, health_checks, fsVars, deployment_id, quadlet_queue,
                 deployed_services, all_started, all_healthy, processed_apps, copied,
                 quadlet_result, gitVars, opVars, loopVars, cur, runs, skip_eligible>>

\* app_manager.py 149-182: one iteration of the start loop
Start ==
  /\ pc = "start"
  /\ idx <= Len(deployed_services)
  /\ LET service_name == deployed_services[idx]
         starting == update_service(services, cur, service_name, "starting", deployment_id, None)
     IN
     \E r \in SystemdResults :
       /\ Allowed(r, "true")
       /\ faults' = Charge(r, "true")
       /\ IF r = "true"
            THEN /\ services' = update_service(starting, cur, service_name, "running",
                                               deployment_id, None)
                 /\ calls' = calls \o <<Ev("update_service", service_name, "starting"),
                                        Ev("start_service", service_name, r),
                                        Ev("update_service", service_name, "running")>>
                 /\ idx' = idx + 1
                 /\ UNCHANGED <<applications, error_log, all_started, deployments, finished,
                                ret, raised, pc>>
            ELSE IF r = "false"
              THEN /\ services' = set_last_error_services(
                                    update_service(starting, cur, service_name, "failed",
                                                   deployment_id, None), cur, service_name)
                   /\ error_log' = set_last_error_log(error_log, cur, service_name,
                                                      "Failed to start service")
                   /\ calls' = calls \o <<Ev("update_service", service_name, "starting"),
                                          Ev("start_service", service_name, r),
                                          Ev("update_service", service_name, "failed"),
                                          Ev("set_last_error", service_name, "")>>
                   /\ all_started' = FALSE
                   /\ idx' = idx + 1
                   /\ UNCHANGED <<applications, deployments, finished, ret, raised, pc>>
              ELSE /\ services' = starting
                   /\ calls' = calls \o <<Ev("update_service", service_name, "starting"),
                                          Ev("start_service", service_name, r)>>
                   /\ ExceptHandler
                   /\ UNCHANGED <<error_log, all_started, idx>>
  /\ UNCHANGED <<health_checks, fsVars, deployment_id, quadlet_queue, deployed_services,
                 all_healthy, processed_apps, copied, quadlet_result, gitVars,
                 opVars, loopVars, cur, runs, skip_eligible>>

\* app_manager.py 184-195: after the start loop
StartExit ==
  /\ pc = "start"
  /\ idx > Len(deployed_services)
  /\ IF ~all_started
       THEN /\ deployments' = finish_deployment(deployments, deployment_id, "failed",
                                                "Some services failed to start")
            /\ finished' = Append(finished, deployment_id)
            /\ calls' = Append(calls, Ev("finish_deployment", "", "failed"))
            /\ ret' = FALSE
            /\ pc' = "returned"
            /\ UNCHANGED <<idx, all_healthy>>
       ELSE /\ all_healthy' = TRUE
            /\ idx' = 1
            /\ pc' = "health"
            /\ UNCHANGED <<deployments, finished, calls, ret>>
  /\ UNCHANGED <<services, error_log, health_checks, fsVars, deployment_id, quadlet_queue,
                 deployed_services, all_started, processed_apps, copied, quadlet_result,
                 raised, applications, gitVars, opVars, loopVars, cur, runs, skip_eligible, faults>>


\* HealthChecker.check_container_health answers healthy or not healthy (its
\* own errors are answered not healthy); "raise" is an exception raised by
\* one of the other calls inside the try block of lines 198-243
ProbeResults == {"healthy", "unhealthy", "raise"}

\* app_manager.py 197-257: one iteration of the health loop
Health ==
  /\ pc = "health"
  /\ idx <= Len(deployed_services)
  /\ LET service_name == deployed_services[idx] IN
     \E r \in ProbeResults :
       /\ Allowed(r, "healthy")
       /\ faults' = Charge(r, "healthy")
       /\ calls' = Append(calls, Ev("check_container_health", service_name, r))
       /\ IF r = "healthy"
            THEN /\ services' = update_service(services, cur, service_name, "running",
                                               deployment_id, None)
                 /\ health_checks' = add_health_check(health_checks, cur, service_name,
                                                      "running")
                 /\ UNCHANGED <<error_log, all_healthy>>
            ELSE IF r = "unhealthy"
              THEN /\ services' = set_last_error_services(
                                    update_service(services, cur, service_name, "unhealthy",
                                                   deployment_id, None), cur, service_name)
                   /\ error_log' = set_last_error_log(error_log, cur, service_name,
                                                      "Health check failed")
                   /\ all_healthy' = FALSE
                   /\ UNCHANGED health_checks
              ELSE /\ services' = set_last_error_services(
                                    update_service(services, cur, service_name, "unknown",
                                                   deployment_id, None), cur, service_name)
                   /\ error_log' = set_last_error_log(error_log, cur, service_name,
                                                      "Health check error")
                   /\ all_healthy' = FALSE
                   /\ UNCHANGED health_checks
  /\ idx' = idx + 1
  /\ UNCHANGED <<deployments, finished, fsVars, deployment_id, quadlet_queue, deployed_services,
                 all_started, ret, processed_apps, copied, quadlet_result, raised, pc,
                 applications, gitVars, opVars, loopVars, cur, runs, skip_eligible>>

\* faulty variant: the stabilization loop is entered whatever the probes said
HealthExitAlways ==
  /\ pc = "health"
  /\ idx > Len(deployed_services)
  /\ pc' = "stabilize"
  /\ idx' = 1
  /\ UNCHANGED <<storeVars, fsVars, gitVars, opVars, loopVars, histVars, faults, cur, deployment_id,
                 quadlet_queue, deployed_services, all_started, all_healthy, ret,
                 processed_apps>>

\* app_manager.py 259-265: the stabilization loop is entered only when
\* every probe was healthy
HealthExit ==
  /\ pc = "health"
  /\ idx > Len(deployed_services)
  /\ pc' = IF all_healthy THEN "stabilize" ELSE "finish"
  /\ idx' = 1
  /\ UNCHANGED <<storeVars, fsVars, gitVars, opVars, loopVars, histVars, faults, cur, deployment_id,
                 quadlet_queue, deployed_services, all_started, all_healthy, ret,
                 processed_apps>>

MaxPolls == 2

\* the answers check_container_health gives during one wait of the
\* stabilization loop: its timeout of 30 seconds allows at least one check
PollSeqs == UNION {[1..n -> BOOLEAN] : n \in 1..MaxPolls}

\* the loop of HealthChecker.wait_for_healthy from its i-th iteration on: the
\* window allows Len(polls) iterations, polls[i] is the answer of the i-th
\* check_container_health; the first healthy answer returns True, the end of
\* the window returns False
RECURSIVE WaitLoop(_, _, _)
WaitLoop(polls, i, made) ==
  IF i > Len(polls) THEN [result |-> FALSE, made |-> made]
  ELSE IF polls[i] THEN [result |-> TRUE, made |-> Append(made, TRUE)]
  ELSE WaitLoop(polls, i + 1, Append(made, FALSE))

\* the answers of the checks one wait makes
ChecksMade(polls) == WaitLoop(polls, 1, <<>>).made

\* faulty variant: the end of the window is answered True
wait_for_healthy_true_at_timeout(polls) == TRUE

\* HealthChecker.wait_for_healthy: poll until one check is healthy or the
\* timeout has elapsed
wait_for_healthy(polls) == WaitLoop(polls, 1, <<>>).result

\* the checks of one wait, as events of the call: one event for each kind
\* of answer the wait received, the not healthy ones first
WindowEvents(s, made) ==
  (IF \E i \in DOMAIN made : ~made[i] THEN <<Ev("wait_check", s, "unhealthy")>> ELSE <<>>)
  \o (IF \E i \in DOMAIN made : made[i] THEN <<Ev("wait_check", s, "healthy")>> ELSE <<>>)

\* app_manager.py 265-279: one iteration of the stabilization loop
Stabilize ==
  /\ pc = "stabilize"
  /\ idx <= Len(deployed_services)
  /\ LET service_name == deployed_services[idx] IN
     \E polls \in PollSeqs :
       /\ Allowed(ChecksMade(polls), <<TRUE>>)
       /\ faults' = Charge(ChecksMade(polls), <<TRUE>>)
       /\ IF wait_for_healthy(polls)
         THEN /\ calls' = calls \o WindowEvents(service_name, ChecksMade(polls))
                                  \o <<Ev("wait_for_healthy", service_name, "true")>>
              /\ UNCHANGED <<services, error_log, all_healthy>>
         ELSE /\ calls' = calls \o WindowEvents(service_name, ChecksMade(polls))
                                  \o <<Ev("wait_for_healthy", service_name, "false")>>
              /\ all_healthy' = FALSE
              /\ services' = set_last_error_services(
                               update_service(services, cur, service_name, "unstable",
                                              deployment_id, None), cur, service_name)
              /\ error_log' = set_last_error_log(error_log, cur, service_name,
                                 "Service did not stabilize within timeout period")
  /\ idx' = idx + 1
  /\ UNCHANGED <<deployments, finished, health_checks, fsVars, deployment_id, quadlet_queue,
                 deployed_services, all_started, ret, processed_apps, copied,
                 quadlet_result, raised, pc, applications, gitVars, opVars, loopVars, cur, runs,
                 skip_eligible>>

StabilizeExit ==
  /\ pc = "stabilize"
  /\ idx > Len(deployed_services)
  /\ pc' = "finish"
  /\ UNCHANGED <<storeVars, fsVars, gitVars, opVars, loopVars, histVars, faults, cur, deployment_id,
                 quadlet_queue, deployed_services, idx, all_started, all_healthy, ret,
                 processed_apps>>

\* faulty variant: the call returns True whatever status it recorded
FinishReturningTrue ==
  /\ pc = "finish"
  /\ IF all_healthy
       THEN /\ deployments' = finish_deployment(deployments, deployment_id, "success", "")
            /\ calls' = Append(calls, Ev("finish_deployment", "", "success"))
            /\ processed_apps' = processed_apps \cup {cur}
            /\ ret' = TRUE
       ELSE /\ deployments' = finish_deployment(deployments, deployment_id, "failed",
                                                "Some services are unhealthy or unstable")
            /\ calls' = Append(calls, Ev("finish_deployment", "", "failed"))
            /\ ret' = TRUE
            /\ UNCHANGED processed_apps
  /\ finished' = Append(finished, deployment_id)
  /\ pc' = "returned"
  /\ UNCHANGED <<applications, services, error_log, health_checks, fsVars, gitVars, opVars, loopVars,
                 faults, cur, deployment_id, quadlet_queue, deployed_services, idx, all_started,
                 all_healthy, runs, copied, quadlet_result, skip_eligible, raised>>

\* app_manager.py 281-297: record the final deployment status
Finish ==
  /\ pc = "finish"
  /\ IF all_healthy
       THEN /\ deployments' = finish_deployment(deployments, deployment_id, "success", "")
            /\ calls' = Append(calls, Ev("finish_deployment", "", "success"))
            /\ processed_apps' = processed_apps \cup {cur}
            /\ ret' = TRUE
       ELSE /\ deployments' = finish_deployment(deployments, deployment_id, "failed",
                                                "Some services are unhealthy or unstable")
            /\ calls' = Append(calls, Ev("finish_deployment", "", "failed"))
            /\ ret' = FALSE
            /\ UNCHANGED processed_apps
  /\ finished' = Append(finished, deployment_id)
  /\ pc' = "returned"
  /\ UNCHANGED <<applications, services, error_log, health_checks, fsVars, gitVars, opVars, loopVars,
                 faults, cur, deployment_id, quadlet_queue, deployed_services, idx, all_started,
                 all_healthy, runs, copied, quadlet_result, skip_eligible, raised>>

\* the caller takes the result of process_application; the locals of the call
\* are gone
ReturnLocals ==
  /\ pc = "returned"
  /\ pc' = "idle"
  /\ cur' = "app1"
  /\ deployment_id' = None
  /\ quadlet_queue' = <<>>
  /\ deployed_services' = <<>>
  /\ idx' = 1
  /\ all_started' = TRUE
  /\ all_healthy' = TRUE
  /\ ret' = FALSE
  /\ calls' = <<>>
  /\ copied' = <<>>
  /\ quadlet_result' = "none"
  /\ skip_eligible' = FALSE
  /\ raised' = FALSE
  /\ UNCHANGED <<storeVars, fsVars, gitVars, opVars, runs, processed_apps, faults>>

Return == ReturnLocals /\ UNCHANGED loopVars


\* ------------------------------------- start / stop / restart_application
OpKinds == {"start", "stop", "restart"}

\* all service names, in the order of the primary-key index of the services
\* table
ServiceNames == <<"api", "cache", "db", "web">>

\* the rows get_app_services returns: the query is answered from the index on
\* (app_name, service_name)
ServiceOrders(a) == {SelectSeq(ServiceNames, LAMBDA n : n \in get_app_services(services, a))}

\* entry of start_application (396-403), stop_application (472-479) or
\* restart_application (525-529): with no service rows both phases return
\* False at once
OpBegin(kind, a) ==
  /\ pc = "idle"
  /\ op_pc = "idle"
  /\ ops < MaxOps
  /\ ops' = ops + 1
  /\ op_app' = a
  /\ op_restart' = (kind = "restart")
  /\ op_calls' = <<>>
  /\ IF get_app_services(services, a) = {}
       THEN /\ op_success' = FALSE
            /\ op_pc' = "idle"
            /\ op_queue' = <<>>
       ELSE /\ op_success' = TRUE
            /\ op_pc' = IF kind = "start" THEN "starting" ELSE "stopping"
            /\ \E order \in ServiceOrders(a) : op_queue' = order
  /\ UNCHANGED <<storeVars, fsVars, gitVars, loopVars, runVars, histVars, faults>>

\* app_manager.py 483-514: one iteration of the stop loop; after the last
\* one stop_application returns, and restart_application goes on to
\* start_application
OpStop ==
  /\ op_pc = "stopping"
  /\ op_queue # <<>>
  /\ LET service_name == Head(op_queue)
         stopping == update_service(services, op_app, service_name, "stopping", None, None)
         last == Tail(op_queue) = <<>>
         next_pc == IF op_restart THEN "starting" ELSE "idle"
     IN
     \E r \in SystemdResults :
       /\ Allowed(r, "true")
       /\ faults' = Charge(r, "true")
       /\ op_calls' = Append(op_calls, Ev("stop_service", service_name, r))
       /\ IF r = "true"
            THEN /\ services' = update_service(stopping, op_app, service_name, "stopped",
                                               None, None)
                 /\ UNCHANGED <<error_log, op_success>>
            ELSE IF r = "false"
              THEN /\ services' = set_last_error_services(stopping, op_app, service_name)
                   /\ error_log' = set_last_error_log(error_log, op_app, service_name,
                                                      "Failed to stop service")
                   /\ op_success' = FALSE
              ELSE /\ services' = stopping
                   /\ op_success' = FALSE
                   /\ UNCHANGED error_log
       /\ IF r = "raise" \/ last
            THEN /\ op_pc' = next_pc
                 /\ IF op_restart
                      THEN \E order \in ServiceOrders(op_app) : op_queue' = order
                      ELSE op_queue' = <<>>
            ELSE /\ op_queue' = Tail(op_queue)
                 /\ UNCHANGED op_pc
  /\ UNCHANGED <<applications, deployments, finished, health_checks, fsVars, gitVars, loopVars, runVars,
                 histVars, op_app, op_restart, ops>>

\* the result of the immediate probe in start_application
OpProbeResults == {"healthy", "unhealthy"}

\* app_manager.py 407-461: one iteration of the start loop
OpStart ==
  /\ op_pc = "starting"
  /\ op_queue # <<>>
  /\ LET service_name == Head(op_queue)
         starting == update_service(services, op_app, service_name, "starting", None, None)
         last == Tail(op_queue) = <<>>
     IN
     \E r \in SystemdResults, h \in OpProbeResults :
       /\ Allowed(r, "true")
       /\ r = "true" => Allowed(h, "healthy")
       /\ r # "true" => h = "healthy"
       /\ faults' = IF r = "true" THEN Charge(h, "healthy") ELSE faults + 1
       /\ op_calls' = Append(op_calls, Ev("start_service", service_name, r))
       /\ IF r = "true" /\ h = "healthy"
            THEN /\ services' = update_service(starting, op_app, service_name, "running",
                                               None, None)
                 /\ health_checks' = add_health_check(health_checks, op_app, service_name,
                                                      "running")
                 /\ op_success' = IF op_restart /\ op_calls = <<>> THEN TRUE ELSE op_success
                 /\ UNCHANGED error_log
            ELSE IF r = "true"
              THEN /\ services' = update_service(starting, op_app, service_name,
                                                 "unhealthy", None, None)
                   /\ op_success' = FALSE
                   /\ UNCHANGED <<error_log, health_checks>>
              ELSE IF r = "false"
                THEN /\ services' = set_last_error_services(
                                      update_service(starting, op_app, service_name,
                                                     "failed", None, None), op_app, service_name)
                     /\ error_log' = set_last_error_log(error_log, op_app, service_name,
                                                        "Failed to start service")
                     /\ op_success' = FALSE
                     /\ UNCHANGED health_checks
                ELSE /\ services' = starting
                     /\ op_success' = FALSE
                     /\ UNCHANGED <<error_log, health_checks>>
       /\ IF r = "raise" \/ last
            THEN /\ op_pc' = "idle"
                 /\ op_queue' = <<>>
            ELSE /\ op_queue' = Tail(op_queue)
                 /\ UNCHANGED op_pc
  /\ UNCHANGED <<applications, deployments, finished, fsVars, gitVars, loopVars, runVars, histVars, op_app,
                 op_restart, ops>>

\* ------------------------------------------------------------ GitManager
\* git_manager.py 24-41
get_git_ops(a) ==
  /\ repositories' = repositories \cup {repository_url(a)}
  /\ handles' = handles \cup {a}
  /\ UNCHANGED <<storeVars, fsVars, runVars, histVars, opVars, loopVars, faults, git_ops,
                 remote_differs, checked_repos, repos_with_changes, fetches, fetch_failed,
                 reset_from, returned_values, checks>>

\* faulty variant: the cached answer is never used
check_for_changes_uncached(a) ==
  /\ a \in handles
  /\ checks < MaxChecks
  /\ checks' = checks + 1
  /\ LET repo_url == repository_url(a) IN
     \E fetch_ok \in BOOLEAN :
       LET changes == has_changes(remote_differs[repo_url], fetch_ok) IN
       /\ fetches' = [fetches EXCEPT ![repo_url] = @ + 1]
       /\ fetch_failed' = IF fetch_ok THEN fetch_failed ELSE fetch_failed \cup {repo_url}
       /\ checked_repos' = checked_repos \cup {repo_url}
       /\ repos_with_changes' = IF changes THEN repos_with_changes \cup {repo_url}
                                 ELSE repos_with_changes \ {repo_url}
       /\ returned_values' = [returned_values EXCEPT ![repo_url] = @ \cup {changes}]
  /\ UNCHANGED <<storeVars, fsVars, runVars, histVars, opVars, loopVars, faults, git_ops,
                 remote_differs, repositories, handles, reset_from>>

\* git_manager.py 43-67, called with the handle application a holds
check_for_changes(a) ==
  /\ a \in handles
  /\ checks < MaxChecks
  /\ checks' = checks + 1
  /\ LET repo_url == repository_url(a) IN
     IF repo_url \in checked_repos
       THEN /\ returned_values' = [returned_values EXCEPT
                                    ![repo_url] = @ \cup {repo_url \in repos_with_changes}]
            /\ UNCHANGED <<checked_repos, repos_with_changes, fetches, fetch_failed>>
       ELSE \E fetch_ok \in BOOLEAN :
              LET changes == has_changes(remote_differs[repo_url], fetch_ok) IN
              /\ fetches' = [fetches EXCEPT ![repo_url] = @ + 1]
              /\ fetch_failed' = IF fetch_ok THEN fetch_failed
                                 ELSE fetch_failed \cup {repo_url}
              /\ checked_repos' = checked_repos \cup {repo_url}
              /\ repos_with_changes' = IF changes THEN repos_with_changes \cup {repo_url}
                                        ELSE repos_with_changes
              /\ returned_values' = [returned_values EXCEPT ![repo_url] = @ \cup {changes}]
  /\ UNCHANGED <<storeVars, fsVars, runVars, histVars, opVars, loopVars, faults, git_ops,
                 remote_differs, repositories, handles, reset_from>>

\* faulty variant: only checked_repos is cleared
reset_cycle_keeping_changes ==
  /\ checked_repos' = {}
  /\ repos_with_changes' = repos_with_changes
  /\ fetches' = [u \in RepoUrls |-> 0]
  /\ fetch_failed' = {}
  /\ reset_from' = [checked_repos |-> checked_repos, repos_with_changes |-> repos_with_changes]
  /\ returned_values' = [u \in RepoUrls |-> {}]
  /\ checks' = 0
  /\ UNCHANGED <<storeVars, fsVars, runVars, histVars, opVars, loopVars, faults, git_ops,
                 remote_differs, repositories, handles>>

\* git_manager.py 69-72
reset_cycle ==
  /\ checked_repos' = {}
  /\ repos_with_changes' = {}
  /\ fetches' = [u \in RepoUrls |-> 0]
  /\ fetch_failed' = {}
  /\ reset_from' = [checked_repos |-> checked_repos, repos_with_changes |-> repos_with_changes]
  /\ returned_values' = [u \in RepoUrls |-> {}]
  /\ checks' = 0
  /\ UNCHANGED <<storeVars, fsVars, runVars, histVars, opVars, loopVars, faults, git_ops,
                 remote_differs, repositories, handles>>

\* a commit is pushed to the remote branch, or the working copy catches up
RemoteChange(u) ==
  /\ remote_differs' = [remote_differs EXCEPT ![u] = ~@]
  /\ UNCHANGED <<storeVars, fsVars, runVars, histVars, opVars, loopVars, faults, git_ops,
                 repositories, checked_repos, repos_with_changes, handles, fetches, fetch_failed,
                 reset_from,
                 returned_values, checks>>

NextGit ==
  \/ \E a \in AppNames : get_git_ops(a)
  \/ \E a \in AppNames : check_for_changes(a)
  \/ reset_cycle
  \/ \E u \in RepoUrls : RemoteChange(u)

SpecGit == Init /\ [][NextGit]_vars

\* the steps of a process_application call after its entry
Steps ==
  \/ Sync
  \/ Find
  \/ Deploy
  \/ Reload
  \/ Start
  \/ StartExit
  \/ Health
  \/ HealthExit
  \/ Stabilize
  \/ StabilizeExit
  \/ Finish

Pipeline ==
  \/ Steps
  \/ Return

\* reconciliation only: a sequence of process_application calls
Next ==
  \/ \E a \in AppNames : runs < MaxRuns /\ ProcessStart(a)
  \/ Pipeline

Spec == Init /\ [][Next]_vars

\* process_application and the operator calls start_application,
\* stop_application and restart_application, one call at a time
NextOps ==
  \/ \E a \in AppNames : runs < MaxOpRuns /\ ProcessStart(a)
  \/ Pipeline
  \/ \E kind \in OpKinds, a \in AppNames : OpBegin(kind, a)
  \/ OpStop
  \/ OpStart

SpecOps == Init /\ [][NextOps]_vars


\* ------------------------------------------ process_all_applications
\* the lists get_app_list can return: config.applications.enabled of a
\* configuration that enables some of the applications, in some order
EnabledLists == UNION {Perms(S) : S \in SUBSET AppNames}

\* lines 327-329: results = {} and the list the for loop iterates
PassBegin(list) ==
  /\ pass_pc = "idle"
  /\ pc = "idle"
  /\ op_pc = "idle"
  /\ enabled' = list
  /\ pass_pc' = "loop"
  /\ pass_idx' = 1
  /\ results' = [a \in {} |-> FALSE]
  /\ invoked' = <<>>
  /\ UNCHANGED <<storeVars, fsVars, gitVars, runVars, histVars, opVars, waitVars, mainVars, statusVars, fileVars, serviceVars,
                 faults>>

\* line 330, right-hand side: the call of process_application for the next
\* name of the list
PassCall ==
  /\ pass_pc = "loop"
  /\ pass_idx <= Len(enabled)
  /\ ProcessEntry(enabled[pass_idx])
  /\ invoked' = Append(invoked, enabled[pass_idx])
  /\ UNCHANGED <<enabled, pass_pc, pass_idx, results, waitVars, mainVars, statusVars, fileVars, serviceVars>>

\* faulty variant: a False result ends the pass
PassCollectStopAtFailure ==
  /\ pass_pc = "loop"
  /\ pc = "returned"
  /\ results' = [a \in DOMAIN results \cup {cur} |-> IF a = cur THEN ret ELSE results[a]]
  /\ pass_idx' = pass_idx + 1
  /\ pass_pc' = IF ret THEN "loop" ELSE "returned"
  /\ ReturnLocals
  /\ UNCHANGED <<enabled, invoked, waitVars, mainVars, statusVars, fileVars, serviceVars>>

\* line 330, assignment: the returned value is stored under the name and the
\* loop goes on to the next name
PassCollect ==
  /\ pass_pc = "loop"
  /\ pc = "returned"
  /\ results' = [a \in DOMAIN results \cup {cur} |-> IF a = cur THEN ret ELSE results[a]]
  /\ pass_idx' = pass_idx + 1
  /\ ReturnLocals
  /\ UNCHANGED <<enabled, pass_pc, invoked, waitVars, mainVars, statusVars, fileVars, serviceVars>>

\* line 332: the list is exhausted and results is returned
PassEnd ==
  /\ pass_pc = "loop"
  /\ pc = "idle"
  /\ pass_idx > Len(enabled)
  /\ pass_pc' = "returned"
  /\ UNCHANGED <<storeVars, fsVars, gitVars, runVars, histVars, opVars, waitVars, mainVars, statusVars, fileVars, serviceVars,
                 faults, enabled, pass_idx, results, invoked>>

NextAll ==
  \/ \E list \in EnabledLists : PassBegin(list)
  \/ PassCall
  \/ Steps
  \/ PassCollect
  \/ PassEnd

SpecAll == Init /\ [][NextAll]_vars

\* ---------------------------------------------------- main service loop
\* passes counted before the counter stops counting
MaxPasses == 3

\* time.sleep(60) of the except handler of the loop
SleepSeconds == 60

\* the attributes ApplicationManager.__init__ sets on the instance
ApplicationManagerAttributes ==
  {"config", "state_manager", "quadlet_handler", "systemd_manager", "git_ops",
   "health_checker", "processed_apps"}

\* line 221, the loop test; lines 280-281 when it fails
MainWhile ==
  /\ main_pc = "while"
  /\ IF running
       THEN /\ main_pc' = "try"
            /\ passes' = IF passes < MaxPasses THEN passes + 1 ELSE passes
            /\ reset_calls' = 0
            /\ main_invoked' = <<>>
            /\ UNCHANGED exit_code
       ELSE /\ main_pc' = "exited"
            /\ exit_code' = <<0>>
            /\ UNCHANGED <<passes, reset_calls, main_invoked>>
  /\ UNCHANGED <<storeVars, fsVars, gitVars, runVars, histVars, opVars, waitVars, passVars, statusVars, fileVars, serviceVars,
                 faults, running, slept>>

\* lines 224-228: start_time, results = {}, then the attribute lookup
\* app_manager.git_manager, which raises AttributeError when the instance has
\* no such attribute; only when it has one is reset_cycle called and the for
\* loop of line 231 reached
MainPass ==
  /\ main_pc = "try"
  /\ IF "git_manager" \in ApplicationManagerAttributes
       THEN /\ main_pc' = "apps"
            /\ reset_calls' = reset_calls + 1
            /\ checked_repos' = {}
            /\ repos_with_changes' = {}
            /\ fetches' = [u \in RepoUrls |-> 0]
            /\ fetch_failed' = {}
            /\ reset_from' = [checked_repos |-> checked_repos,
                              repos_with_changes |-> repos_with_changes]
            /\ returned_values' = [u \in RepoUrls |-> {}]
            /\ checks' = 0
            /\ UNCHANGED slept
       ELSE /\ main_pc' = "except"
            /\ slept' = 0
            /\ UNCHANGED <<reset_calls, checked_repos, repos_with_changes, fetches,
                           fetch_failed, reset_from, returned_values, checks>>
  /\ UNCHANGED <<storeVars, fsVars, runVars, histVars, opVars, waitVars, passVars, statusVars, fileVars, serviceVars, faults,
                 git_ops, remote_differs, repositories, handles, running, passes,
                 main_invoked, exit_code>>

\* faulty variant: the exception leaves the loop and main returns 1
MainExceptTerminates ==
  /\ main_pc = "except"
  /\ main_pc' = "exited"
  /\ exit_code' = <<1>>
  /\ UNCHANGED <<storeVars, fsVars, gitVars, runVars, histVars, opVars, waitVars, passVars, statusVars, fileVars, serviceVars,
                 faults, running, slept, passes, reset_calls, main_invoked>>

\* lines 276-278: the exception is logged and time.sleep(60) runs, one second
\* a step; the running flag is not looked at until the sleep is over
MainExcept ==
  /\ main_pc = "except"
  /\ IF slept < SleepSeconds
       THEN slept' = slept + 1 /\ UNCHANGED main_pc
       ELSE main_pc' = "while" /\ UNCHANGED slept
  /\ UNCHANGED <<storeVars, fsVars, gitVars, runVars, histVars, opVars, waitVars, passVars, statusVars, fileVars, serviceVars,
                 faults, running, passes, reset_calls, main_invoked, exit_code>>

\* lines 66-70: SIGINT or SIGTERM arrives while the process is alive
signal_handler ==
  /\ main_pc # "exited"
  /\ running' = FALSE
  /\ UNCHANGED <<storeVars, fsVars, gitVars, runVars, histVars, opVars, waitVars, passVars, statusVars, fileVars, serviceVars,
                 faults, main_pc, slept, passes, reset_calls, main_invoked, exit_code>>

\* lines 231-274 (the for loop over the enabled applications, the metrics and
\* the ten-second wait) follow line 228 and run only when it returns
NextMain ==
  \/ MainWhile
  \/ MainPass
  \/ MainExcept
  \/ signal_handler

SpecMain == Init /\ [][NextMain]_vars

\* the loop is a single thread that is never blocked for good: each of its
\* steps is taken when it is due; a signal may or may not arrive
SpecMainFair ==
  SpecMain /\ WF_vars(MainWhile) /\ WF_vars(MainPass) /\ WF_vars(MainExcept)

\* ------------------------------------------- StateManager on its own
\* Deployment rows and finish_deployment calls in SpecStore
MaxStoreRows == 2

\* arguments of the calls: a configured and an unconfigured application, one
\* service, the statuses and states the callers pass
StoreApps == {"app1", "ghost"}
StoreServices == {"web"}
StoreStatuses == {"success", "failed"}
StoreStates == {"running", "stopped"}

\* manager.py 123-167, called with the defaults of description and config_hash
StoreRegisterApplication(a) ==
  /\ applications' = register_application(applications, a, NoDescription)
  /\ UNCHANGED <<deployments, services, error_log, health_checks, finished, fsVars, gitVars,
                 runVars, histVars, opVars, loopVars, faults>>

\* manager.py 169-201: register_application(app_name), then the insert
StoreStartDeployment(a) ==
  /\ Len(deployments) < MaxStoreRows
  /\ applications' = register_application(applications, a, NoDescription)
  /\ deployments' = start_deployment(deployments, a, "local")
  /\ UNCHANGED <<services, error_log, health_checks, finished, fsVars, gitVars, runVars,
                 histVars, opVars, loopVars, faults>>

\* manager.py 239-273: register_application(app_name), then the insert
StoreRecordDeployment(a, status) ==
  /\ Len(deployments) < MaxStoreRows
  /\ applications' = register_application(applications, a, NoDescription)
  /\ deployments' = record_deployment(deployments, a, "local", status, "")
  /\ UNCHANGED <<services, error_log, health_checks, finished, fsVars, gitVars, runVars,
                 histVars, opVars, loopVars, faults>>

\* manager.py 203-237: UPDATE .. WHERE id = ?; an unknown id changes nothing
StoreFinishDeployment(id, status) ==
  /\ Len(finished) < MaxStoreRows
  /\ deployments' = finish_deployment(deployments, id, status, "")
  /\ finished' = IF id \in DOMAIN deployments THEN Append(finished, id) ELSE finished
  /\ UNCHANGED <<applications, services, error_log, health_checks, fsVars, gitVars, runVars,
                 histVars, opVars, loopVars, faults>>

\* manager.py 275-335: the row is updated or inserted; no other table is
\* read or written
StoreUpdateService(a, s, state, dep) ==
  /\ services' = update_service(services, a, s, state, dep, None)
  /\ UNCHANGED <<applications, deployments, error_log, health_checks, finished, fsVars,
                 gitVars, runVars, histVars, opVars, loopVars, faults>>

\* manager.py 381-423: an unknown service is first created with state
\* unknown through update_service, then the check is inserted
StoreAddHealthCheck(a, s, status) ==
  /\ services' = IF <<a, s>> \in DOMAIN services THEN services
                 ELSE update_service(services, a, s, "unknown", None, None)
  /\ health_checks' = add_health_check(health_checks, a, s, status)
  /\ UNCHANGED <<applications, deployments, error_log, finished, fsVars, gitVars, runVars,
                 histVars, opVars, loopVars, faults>>

\* manager.py 462-495
StoreSetLastError(a, s) ==
  /\ error_log' = set_last_error_log(error_log, a, s, "error")
  /\ services' = set_last_error_services(services, a, s)
  /\ UNCHANGED <<applications, deployments, health_checks, finished, fsVars, gitVars,
                 runVars, histVars, opVars, loopVars, faults>>

NextStore ==
  \/ \E a \in StoreApps : StoreRegisterApplication(a)
  \/ \E a \in StoreApps : StoreStartDeployment(a)
  \/ \E a \in StoreApps, status \in StoreStatuses : StoreRecordDeployment(a, status)
  \/ \E id \in 1..MaxStoreRows, status \in StoreStatuses : StoreFinishDeployment(id, status)
  \/ \E a \in StoreApps, s \in StoreServices, state \in StoreStates,
        dep \in {None} \cup (1..MaxStoreRows) : StoreUpdateService(a, s, state, dep)
  \/ \E a \in StoreApps, s \in StoreServices : StoreAddHealthCheck(a, s, "healthy")
  \/ \E a \in StoreApps, s \in StoreServices : StoreSetLastError(a, s)

SpecStore == Init /\ [][NextStore]_vars

\* --------------------------------------------------- status operations
\* status calls in SpecStatus
MaxStatusCalls == 1

\* manager.py 772-805: the overall status computed from the unresolved
\* errors, the states of the services and the deployment of the application
\* with the latest timestamp
overall_status(a) ==
  LET states == {services[k].state : k \in {x \in DOMAIN services : x[1] = a}}
      errors == {e \in error_log : e.app_name = a}
      history == get_deployment_history(deployments, a, 1)
      last == IF history = <<>> THEN None ELSE history[1]
  IN IF errors # {} THEN "error"
     ELSE IF "error" \in states \/ "failed" \in states THEN "error"
     ELSE IF "unhealthy" \in states THEN "unhealthy"
     ELSE IF last # None /\ deployments[last].status = "failed" THEN "deployment_failed"
     ELSE IF states = {} THEN "no_services"
     ELSE "healthy"

\* manager.py 720-825, the summary reduced to its status
get_app_status_summary(a) == IF a \notin DOMAIN applications THEN "not_found" ELSE overall_status(a)

\* app_manager.py 334-364
get_application_status(a) ==
  IF a \notin app_configs THEN "not_configured" ELSE get_app_status_summary(a)

\* manager.py 829-850: one summary for every Application row
get_status_all_applications == [a \in DOMAIN applications |-> get_app_status_summary(a)]

\* faulty variant: the status call registers the application it is asked about
StatusApplicationRegistering(a) ==
  /\ status_calls < MaxStatusCalls
  /\ status_result' = [x \in {a} |-> get_application_status(a)]
  /\ status_calls' = status_calls + 1
  /\ applications' = register_application(applications, a, NoDescription)
  /\ UNCHANGED <<deployments, services, error_log, health_checks, finished, fsVars, gitVars,
                 runVars, histVars, opVars, waitVars, passVars, mainVars, fileVars, serviceVars, faults>>

\* main.py 58-64, GET /applications/{app_name}
StatusApplication(a) ==
  /\ status_calls < MaxStatusCalls
  /\ status_result' = [x \in {a} |-> get_application_status(a)]
  /\ status_calls' = status_calls + 1
  /\ UNCHANGED <<storeVars, fsVars, gitVars, runVars, histVars, opVars, waitVars, passVars,
                 mainVars, fileVars, serviceVars, faults>>

\* main.py 50-56, GET /applications
StatusAllApplications ==
  /\ status_calls < MaxStatusCalls
  /\ status_result' = get_status_all_applications
  /\ status_calls' = status_calls + 1
  /\ UNCHANGED <<storeVars, fsVars, gitVars, runVars, histVars, opVars, waitVars, passVars,
                 mainVars, fileVars, serviceVars, faults>>

\* the API thread answers status requests while the service thread runs
\* process_application
NextStatus ==
  \/ \E a \in AppNames : runs < MaxRuns /\ ProcessStart(a)
  \/ Pipeline
  \/ \E a \in AppNames : StatusApplication(a)
  \/ StatusAllApplications

SpecStatus == Init /\ [][NextStatus]_vars

\* ------------------------------------------- wait_for_healthy on its own
\* checks that fit into the timeout of one wait_for_healthy call
MaxWindow == 6

\* the answers check_container_health gives inside one window; the empty
\* window is a timeout that is over before the first loop test
Windows == UNION {[1..n -> BOOLEAN] : n \in 0..MaxWindow}

\* one call of wait_for_healthy over a window of answers
WaitCall(polls) ==
  /\ wait_polls' = polls
  /\ wait_result' = [result |-> wait_for_healthy(polls), made |-> ChecksMade(polls)]
  /\ UNCHANGED <<storeVars, fsVars, gitVars, runVars, histVars, opVars, passVars, mainVars, statusVars, fileVars, serviceVars,
                 faults>>

NextWait == \E polls \in Windows : WaitCall(polls)

SpecWait == Init /\ [][NextWait]_vars


\* ================================================================ claims
\* events of the current call with a given operation
Events(op) == SelectSeq(calls, LAMBDA e : e.op = op)

\* the operations C1 forbids on the skip path
SkipForbidden == {"update_service", "start_deployment", "process_and_deploy_app_quadlets",
                  "reload_daemon", "start_service"}

\* C1: a process_application call for a git-sourced application whose change
\* check reports no changes and whose latest Deployment is success returns
\* success without any Service write, without opening a Deployment and
\* without calling process_and_deploy_app_quadlets, reload_daemon or
\* start_service.
C1_SkipWhenUnchanged ==
  skip_eligible =>
    /\ \A i \in DOMAIN calls : calls[i].op \notin SkipForbidden
    /\ deployment_id = None
    /\ (pc = "returned" => ret = TRUE)

\* C2: every Deployment row a process_application call opens as in_progress
\* is success or failed when the call returns, also when an exception was
\* raised after the row was opened; after an exception the opened row itself
\* is failed.
C2_OpenedDeploymentClosed ==
  (pc = "returned" /\ deployment_id # None) =>
    /\ deployments[deployment_id].status \in {"success", "failed"}
    /\ (raised => deployments[deployment_id].status = "failed")

Terminal == {"success", "failed"}

\* one step leaves every Deployment row in place and changes a status only
\* from in_progress to success or failed
StatusStep ==
  \A i \in DOMAIN deployments :
    /\ i \in DOMAIN deployments'
    /\ deployments'[i].status # deployments[i].status =>
         /\ deployments[i].status = "in_progress"
         /\ deployments'[i].status \in Terminal

FinishedOnce == \A i, j \in DOMAIN finished : finished[i] = finished[j] => i = j

\* C3: across any sequence of process_application, start_application,
\* stop_application and restart_application calls a Deployment status only
\* changes in_progress -> success or in_progress -> failed, a row never
\* changes after it is success or failed, and finish_deployment is applied at
\* most once to any deployment id.
C3_StatusOneWay == [][StatusStep]_vars /\ []FinishedOnce

\* a second process_application call and an operator call have run after
\* the first Deployment was closed
C3_Witness ==
  /\ runs = 2
  /\ ops >= 1
  /\ Len(deployments) = 2
  /\ deployments[1].status = "success"
  /\ deployments[2].status = "failed"
  /\ Len(finished) = 2

\* the answer start_service gave for a service in the current call, "none"
\* when it was not called
StartResult(s) ==
  LET e == SelectSeq(calls, LAMBDA x : x.op = "start_service" /\ x.arg = s)
  IN IF e = <<>> THEN "none" ELSE e[1].res

\* C4: when start_service succeeds for a deployed service A and fails for a
\* later one B, the Deployment ends failed, A's stored state is running,
\* stop_service is never called for A, and start_service is attempted for
\* every service after B.
C4_AllOrNothingStart ==
  pc = "returned" =>
    \A i, j \in DOMAIN deployed_services :
      (/\ i < j
       /\ StartResult(deployed_services[i]) = "true"
       /\ StartResult(deployed_services[j]) = "false") =>
        /\ deployments[deployment_id].status = "failed"
        /\ services[<<cur, deployed_services[i]>>].state = "running"
        /\ \A k \in DOMAIN calls : calls[k].op # "stop_service"
        /\ \A k \in DOMAIN deployed_services :
             k > j => StartResult(deployed_services[k]) # "none"

Answered(op, s, res) ==
  \E k \in DOMAIN calls : calls[k].op = op /\ calls[k].arg = s /\ calls[k].res = res

\* every step of the current call passed
AllPassed ==
  /\ quadlet_result = "true"
  /\ Answered("reload_daemon", "", "true")
  /\ \A i \in DOMAIN deployed_services :
       /\ Answered("start_service", deployed_services[i], "true")
       /\ Answered("check_container_health", deployed_services[i], "healthy")
       /\ Answered("wait_for_healthy", deployed_services[i], "true")

\* C5: the Deployment of a run is closed success only if process_and_deploy,
\* reload_daemon, every start_service, every immediate probe and every
\* wait_for_healthy of that run succeeded; in every other completed run it is
\* closed failed.
C5_SuccessOnlyIfAllPassed ==
  (pc = "returned" /\ deployment_id # None) =>
    /\ deployments[deployment_id].status = "success" => AllPassed
    /\ ~AllPassed => deployments[deployment_id].status = "failed"

\* the deployment order the specification fixes
TypeRank(t) ==
  CASE t = "network" -> 1
    [] t = "volume" -> 2
    [] t = "image" -> 3
    [] t = "container" -> 4
    [] t = "config" -> 5

\* C6: whatever the order in which find_quadlet_files enumerates the files,
\* they are copied into the managed directory in the order network, volume,
\* image, container, config: no file of a later type is copied before a file
\* of an earlier type.
C6_DeploymentOrder ==
  \A i, j \in DOMAIN copied :
    i < j => TypeRank(_get_file_type(copied[i])) <= TypeRank(_get_file_type(copied[j]))

\* all six files of app1, one of every type and two config files, are copied
C6_Witness ==
  /\ cur = "app1"
  /\ Len(copied) = 6
  /\ {_get_file_type(copied[i]) : i \in DOMAIN copied} =
       {"network", "volume", "image", "container", "config"}

C8_ReloadOnceBeforeStart ==
  /\ Len(Events("reload_daemon")) <= 1
  /\ Events("reload_daemon") # <<>> => (quadlet_result = "true" /\ quadlet_queue = <<>>)
  /\ \A i \in DOMAIN calls :
       calls[i].op = "start_service" =>
         \E j \in 1..(i - 1) : calls[j].op = "reload_daemon" /\ calls[j].res = "true"

\* a run that copied files, reloaded and called start_service three times
C8_Witness ==
  /\ pc = "returned"
  /\ copied # <<>>
  /\ Len(Events("reload_daemon")) = 1
  /\ Len(Events("start_service")) = 3

\* the operations C9 rules out after a failed process_and_deploy
AfterDeployOps == {"reload_daemon", "start_service", "check_container_health",
                   "wait_for_healthy", "update_service", "set_last_error"}

\* C9: when process_and_deploy_app_quadlets returns failure, the opened
\* Deployment is closed failed with a non-empty error_message,
\* process_application returns false, and the run has no reload_daemon call,
\* no start_service call, no health probe and no Service write.
C9_DeployFailureClosesFailed ==
  (pc = "returned" /\ quadlet_result = "false") =>
    /\ deployments[deployment_id].status = "failed"
    /\ deployments[deployment_id].error_message # ""
    /\ ret = FALSE
    /\ \A i \in DOMAIN calls : calls[i].op \notin AfterDeployOps
    /\ \A k \in DOMAIN services : services[k].deployment_id # deployment_id

\* a run whose process_and_deploy failed after it had copied a file
C9_Witness ==
  /\ pc = "returned"
  /\ quadlet_result = "false"
  /\ copied # <<>>
  /\ services # <<>>

\* the names of the container files of a sequence, in its order
ContainerNames(files) ==
  LET c == SelectSeq(files, LAMBDA f : _get_file_type(f) = "container")
  IN [i \in DOMAIN c |-> c[i].stem]

\* the files copied before the file at which the attempt failed
CopiedBefore(failing) ==
  IF copied # <<>> /\ copied[Len(copied)] = failing
    THEN SubSeq(copied, 1, Len(copied) - 1)
    ELSE copied

Elements(q) == {q[i] : i \in DOMAIN q}

\* C10: process_and_deploy_app_quadlets stops at the first file whose
\* template processing or copy fails: no later file is processed or copied,
\* the names returned with the failure are exactly the container files copied
\* before it, in deployment order, and the files copied earlier in the attempt
\* are still in the managed directory.
C10_StopAtFirstFailure ==
  (pc = "returned" /\ quadlet_result = "false") =>
    /\ deployed_services = ContainerNames(CopiedBefore(Head(quadlet_queue)))
    /\ Elements(Tail(quadlet_queue)) \cap Elements(copied) = {}
    /\ runs = 1 => \A f \in Elements(Tail(quadlet_queue)) : <<cur, f>> \notin processed_dir
    /\ Elements(copied) \subseteq systemd_dir

\* the second of three container files failed: one name is returned and one
\* file is left unprocessed
C10_Witness ==
  /\ pc = "returned"
  /\ quadlet_result = "false"
  /\ Len(deployed_services) = 1
  /\ Len(quadlet_queue) = 2
  /\ runs = 1

StoredState(s) == services[<<cur, s>>].state

\* C11: when start_service fails for a service S during process_application,
\* the Deployment ends failed and the stored state of S is failed when
\* process_application returns.
C11_StartFailureState ==
  pc = "returned" =>
    \A i \in DOMAIN deployed_services :
      StartResult(deployed_services[i]) = "false" =>
        /\ deployments[deployment_id].status = "failed"
        /\ StoredState(deployed_services[i]) = "failed"

\* every service of the current call was started
AllStarted ==
  /\ quadlet_result = "true"
  /\ Answered("reload_daemon", "", "true")
  /\ \A i \in DOMAIN deployed_services : StartResult(deployed_services[i]) = "true"

Probes(s) ==
  SelectSeq(calls, LAMBDA e : e.op = "check_container_health" /\ e.arg = s)

C14_ContinuouslyHealthy ==
  (pc = "returned" /\ deployment_id # None) =>
    \A i \in DOMAIN deployed_services :
      Answered("wait_check", deployed_services[i], "unhealthy") =>
        /\ StoredState(deployed_services[i]) = "unstable"
        /\ deployments[deployment_id].status = "failed"

C16_PassNeverAborted ==
  /\ Len(invoked) <= Len(enabled)
  /\ \A i \in DOMAIN invoked : invoked[i] = enabled[i]
  /\ (pass_pc = "loop" /\ pc = "idle") =>
       /\ Len(invoked) = pass_idx - 1
       /\ DOMAIN results = {invoked[i] : i \in DOMAIN invoked}
  /\ pass_pc = "returned" =>
       /\ invoked = enabled
       /\ DOMAIN results = {enabled[i] : i \in DOMAIN enabled}
       /\ \A a \in DOMAIN results : results[a] \in BOOLEAN

\* a finished pass over three applications in which the first one raised
\* and the second one failed without raising
C16_Witness ==
  /\ pass_pc = "returned"
  /\ enabled = <<"app2", "ghost", "app1">>
  /\ ~results["app2"] /\ ~results["ghost"]
  /\ \E i \in DOMAIN deployments :
       deployments[i].app_name = "app2" /\ deployments[i].error_message = "exception"
  /\ \E i \in DOMAIN deployments :
       deployments[i].app_name = "app1" /\ deployments[i].status \in {"failed", "success"}

\* the pass the loop began last is over
PassOver == passes > 0 /\ main_pc \in {"except", "while", "exited"}

\* C17: in every iteration of the main service loop reset_cycle of the git
\* change cache is performed exactly once and process_application is then
\* invoked exactly once for every enabled application.
C17_ResetThenEveryApplication ==
  PassOver => (reset_calls = 1 /\ main_invoked = Enabled)

SuccessRecorded(a) ==
  \E i \in DOMAIN deployments :
    deployments[i].app_name = a /\ deployments[i].status = "success"

\* C18: eventual convergence: under a fair main loop that is not told to
\* stop, when every external operation for the enabled, configured
\* application app1 succeeds, a Deployment with status success is eventually
\* recorded for it.
C18_EventualConvergence ==
  [](running /\ faults = 0) => <>SuccessRecorded("app1")

\* a step of the loop after an exception: into the handler, through the
\* whole sleep, back to the loop test, and out of the loop only from the loop
\* test with the running flag false
CaughtStep ==
  /\ main_pc = "try" => main_pc' \in {"try", "except"}
  /\ main_pc = "except" => main_pc' \in {"except", "while"}
  /\ (main_pc = "except" /\ main_pc' = "while") => slept = SleepSeconds
  /\ main_pc' = "exited" => (main_pc = "exited" \/ (main_pc = "while" /\ ~running))
  /\ (main_pc = "while" /\ running /\ running') => main_pc' \in {"while", "try"}

\* C19: an exception raised inside a pass of the main service loop never
\* terminates the loop: it is caught, the loop sleeps, and while the running
\* flag is true another pass is attempted.
C19_ExceptionNeverEndsLoop ==
  /\ [][CaughtStep]_vars
  /\ (main_pc = "except") ~> (main_pc = "try" \/ ~running)

\* a second pass is attempted after the exception of the first was caught
\* and the sleep was done
C19_Witness ==
  /\ main_pc = "try"
  /\ passes >= 2
  /\ slept = SleepSeconds
  /\ running

\* C20: cooperative shutdown: once the signal has set the running flag to
\* false, the pass in progress still runs process_application for all its
\* remaining applications, no new pass is started afterwards, and the main
\* loop eventually exits with code 0.
C20_CooperativeShutdown ==
  /\ (~running /\ main_pc = "try") ~> (main_invoked = Enabled)
  /\ [][(~running /\ main_pc = "while") => main_pc' # "try"]_vars
  /\ ~running ~> (main_pc = "exited" /\ exit_code = <<0>>)

\* the call found no configuration for the application, or found its quadlet
\* directory missing (no file was listed, none was copied)
ConfigurationError ==
  \/ cur \notin app_configs
  \/ (quadlet_result = "true" /\ copied = <<>> /\ quadlet_queue = <<>>)

\* C21: configuration errors fail fast: when the application has no
\* configuration, or its quadlet directory does not exist,
\* process_application returns failure and the run records no Deployment
\* with status success.
C21_ConfigurationErrorFails ==
  (pc = "returned" /\ ConfigurationError) =>
    /\ ~ret
    /\ deployment_id # None => deployments[deployment_id].status # "success"

\* the step of a run in which pull_changes did not succeed
PullFailed ==
  /\ pc = "sync"
  /\ git_ops
  /\ calls' # calls
  /\ calls'[Len(calls')].op = "pull_changes"
  /\ calls'[Len(calls')].res # "true"

\* C22: when pulling the git repository fails, process_application returns
\* failure, exactly one Deployment row, with status failed, is recorded for
\* that run, and no manifest processing, reload or service start happens in
\* that run.
C22_SyncFailure ==
  [][PullFailed =>
       /\ pc' = "returned"
       /\ ~ret'
       /\ Len(deployments') = Len(deployments) + 1
       /\ deployments'[Len(deployments')].status = "failed"
       /\ deployments'[Len(deployments')].app_name = cur
       /\ \A i \in DOMAIN deployments : deployments'[i] = deployments[i]
       /\ {calls'[i].op : i \in DOMAIN calls'} \cap
            {"process_and_deploy_app_quadlets", "reload_daemon", "start_service"} = {}
       /\ UNCHANGED <<fsVars, services>>]_vars

ServiceStates ==
  {"deployed", "starting", "running", "unhealthy", "unstable", "failed", "stopped", "error",
   "unknown"}

\* C23: in every state reachable through process_application,
\* start_application, stop_application and restart_application the stored
\* state of every Service row is one of deployed, starting, running,
\* unhealthy, unstable, failed, stopped, error, unknown.
C23_ServiceStateDomain ==
  \A k \in DOMAIN services : services[k].state \in ServiceStates

\* the step stores state stopped in a Service row that did not hold it
BecomesStopped(k) ==
  /\ services'[k].state = "stopped"
  /\ k \in DOMAIN services => services[k].state # "stopped"

\* C24: a Service's stored state becomes stopped only through the stop loop
\* of stop_application (called directly or by restart_application), for the
\* service whose stop_service has just succeeded; process_application never
\* writes stopped.
C24_StoppedOnlyByStop ==
  [][\A k \in DOMAIN services' :
       BecomesStopped(k) =>
         /\ op_pc = "stopping"
         /\ pc = "idle"
         /\ k[1] = op_app
         /\ op_calls' # op_calls
         /\ op_calls'[Len(op_calls')] = Ev("stop_service", k[2], "true")]_vars

\* a restart_application has stopped a service that process_application had
\* left running
C24_Witness ==
  /\ op_restart
  /\ \E k \in DOMAIN services : services[k].state = "stopped"
  /\ \E i \in DOMAIN op_calls : op_calls[i].op = "stop_service" /\ op_calls[i].res = "true"

\* C25: foreign-key discipline: in every state reachable through the
\* StateManager write operations every Service row and every Deployment row
\* has an app_name for which an Application row exists.
C25_ForeignKeys ==
  /\ \A k \in DOMAIN services : k[1] \in DOMAIN applications
  /\ \A i \in DOMAIN deployments : deployments[i].app_name \in DOMAIN applications

\* C26: in every state reachable through process_application,
\* start_application, stop_application and restart_application, every
\* Service row whose deployment_id is set refers to an existing Deployment
\* row of the Service's own application.
C26_ServiceDeploymentReference ==
  \A k \in DOMAIN services :
    services[k].deployment_id # None =>
      /\ services[k].deployment_id \in DOMAIN deployments
      /\ deployments[services[k].deployment_id].app_name = k[1]

\* a service of app2 refers to the second Deployment row while the first
\* belongs to app1, after an operator call has rewritten the service row
C26_Witness ==
  /\ <<"app2", "web">> \in DOMAIN services
  /\ services[<<"app2", "web">>].deployment_id = 2
  /\ deployments[1].app_name = "app1"
  /\ \E i \in DOMAIN op_calls : op_calls[i].arg = "web"

\* C27: Deployment.status is write-once-terminal at the store level: a
\* finish_deployment on a Deployment whose status is already success or
\* failed does not change that status, and record_deployment and
\* finish_deployment never leave a row in a status outside in_progress,
\* success, failed.
C27_StatusWriteOnce ==
  /\ [][\A id \in DOMAIN deployments :
          deployments[id].status \in {"success", "failed"} =>
            deployments'[id].status = deployments[id].status]_vars
  /\ [](\A id \in DOMAIN deployments :
          deployments[id].status \in {"in_progress", "success", "failed"})

\* C28: the status operations are read-only: a call of
\* get_application_status, get_status_all_applications or
\* get_app_status_summary, made in any state and at any point of a running
\* process_application, leaves every Application, Deployment, Service,
\* health-check and error row unchanged.
C28_StatusReadOnly ==
  [][status_calls' # status_calls =>
       UNCHANGED <<applications, deployments, services, health_checks, error_log>>]_vars

\* a status request was answered in the middle of the first
\* process_application call, after a start of that call had failed
C28_Witness ==
  /\ status_calls > 0
  /\ runs = 1
  /\ cur = "app2"
  /\ pc = "health"
  /\ "app2" \in DOMAIN status_result
  /\ status_result["app2"] = "error"

\* ---------------------------------------------------------------------------
\* Manifest files: template substitution, staging and the copy into the managed
\* directory (env_processor.py, quadlet_handler.deploy_processed_file)
\* ---------------------------------------------------------------------------

\* longest template, in tokens
MaxTokens == 2

FileApp == "app1"

FileNames == {"web.container"}

\* a ${NAME} placeholder and a run of ordinary text
Braced(n) == [kind |-> "braced", name |-> n]

Text(v) == [kind |-> "text", name |-> v]

\* names string.Template accepts between the braces: [_a-z][_a-z0-9]*, any case
IsIdentifier(n) == n \in {"PORT", "MISSING", "APP_NAME"}

Tokens == {Braced("PORT"), Braced("MISSING"), Braced("APP_NAME"), Braced("db-host")}

RECURSIVE SeqsUpTo(_, _)
SeqsUpTo(S, n) ==
  IF n = 0 THEN {<<>>}
  ELSE LET shorter == SeqsUpTo(S, n - 1)
       IN shorter \cup {Append(q, x) : q \in shorter, x \in S}

Templates == SeqsUpTo(Tokens, MaxTokens)

\* ApplicationConfig.env as load_app_configs builds it: a map from names to
\* strings, empty when the [env] table is missing
EnvMaps ==
  { [n \in {} |-> ""],
    [n \in {"PORT"} |-> "8080"],
    [n \in {"APP_NAME"} |-> "custom"],
    [n \in {"PORT", "db-host"} |-> IF n = "PORT" THEN "8080" ELSE "pg"] }

\* faulty variant: a placeholder that cannot be resolved is blanked
safe_substitute_blank(template, mapping) ==
  [i \in DOMAIN template |->
     IF /\ template[i].kind = "braced"
        /\ IsIdentifier(template[i].name)
       THEN IF template[i].name \in DOMAIN mapping
              THEN Text(mapping[template[i].name])
              ELSE Text("")
       ELSE template[i]]

\* string.Template.safe_substitute: a placeholder with an identifier name found
\* in the mapping becomes the mapped text, every other token stays as written
safe_substitute(template, mapping) ==
  [i \in DOMAIN template |->
     IF /\ template[i].kind = "braced"
        /\ IsIdentifier(template[i].name)
        /\ template[i].name \in DOMAIN mapping
       THEN Text(mapping[template[i].name])
       ELSE template[i]]

\* process_template: the content of the file after substitution
process_template(template, env_vars) == safe_substitute(template, env_vars)

\* the mapping process_quadlet_file substitutes with: APP_NAME is added, in
\* place, unless the map already has it
with_app_name(a, env_vars) ==
  IF "APP_NAME" \in DOMAIN env_vars THEN env_vars
  ELSE [n \in DOMAIN env_vars \cup {"APP_NAME"} |->
          IF n = "APP_NAME" THEN a ELSE env_vars[n]]

process_quadlet_file(template, a, env_vars) ==
  process_template(template, with_app_name(a, env_vars))

Target(n) == <<n>>

Backup(n) == <<n, ".bak">>

\* directory dir with content written to path p
WriteFile(dir, p, content) ==
  [q \in DOMAIN dir \cup {p} |-> IF q = p THEN content ELSE dir[q]]

\* faulty variant: the backup is taken after the target was overwritten
deploy_processed_file_backup_after(dir, n, content, r) ==
  IF r = "copy_error"
    THEN [dir |-> dir, copied |-> FALSE, ok |-> FALSE]
    ELSE LET written == WriteFile(dir, Target(n), content)
         IN  [dir |-> IF Target(n) \in DOMAIN dir
                        THEN WriteFile(written, Backup(n), written[Target(n)])
                        ELSE written,
              copied |-> TRUE, ok |-> (r = "ok")]

\* deploy_processed_file: an existing target is copied to its .bak sibling,
\* then the processed file is copied over the target and its mode is set; a
\* failing copy leaves the target as it was, and any failure returns False
deploy_processed_file(dir, n, content, r) ==
  LET backed == IF Target(n) \in DOMAIN dir
                  THEN WriteFile(dir, Backup(n), dir[Target(n)])
                  ELSE dir
  IN  IF r = "copy_error"
        THEN [dir |-> backed, copied |-> FALSE, ok |-> FALSE]
        ELSE [dir |-> WriteFile(backed, Target(n), content),
              copied |-> TRUE, ok |-> (r = "ok")]

\* load_app_configs: the application's [env] table becomes its environment map
LoadAppConfig(env) ==
  /\ file_pc = "config"
  /\ file_env' = env
  /\ file_pc' = "fresh"
  /\ UNCHANGED <<staged, managed, file_call>>
  /\ UNCHANGED <<storeVars, fsVars, gitVars, runVars, histVars, opVars, waitVars, passVars,
                 mainVars, statusVars, serviceVars, faults>>

\* one turn of the loop of process_and_deploy_app_quadlets: the file is
\* processed into the staging directory and deployed to the managed directory
ProcessAndDeployFile(n, template, r) ==
  /\ file_pc \in {"fresh", "deployed"}
  /\ file_pc' = IF file_pc = "fresh" THEN "deployed" ELSE "redeployed"
  /\ file_env' = with_app_name(FileApp, file_env)
  /\ IF r = "template_error"
       THEN /\ file_call' = [name |-> n, template |-> template, env |-> file_env,
                              content |-> <<>>, outcome |-> r, staged |-> FALSE,
                              copied |-> FALSE, ok |-> FALSE]
            /\ UNCHANGED <<staged, managed>>
       ELSE LET content == process_quadlet_file(template, FileApp, file_env)
                deployed == deploy_processed_file(managed, n, content, r)
            IN  /\ staged' = WriteFile(staged, n, content)
                /\ managed' = deployed.dir
                /\ file_call' = [name |-> n, template |-> template, env |-> file_env,
                                  content |-> content, outcome |-> r, staged |-> TRUE,
                                  copied |-> deployed.copied, ok |-> deployed.ok]
  /\ UNCHANGED <<storeVars, fsVars, gitVars, runVars, histVars, opVars, waitVars, passVars,
                 mainVars, statusVars, serviceVars, faults>>

NextFiles ==
  \/ \E env \in EnvMaps : LoadAppConfig(env)
  \/ \E n \in FileNames, template \in Templates, r \in FileResults :
       ProcessAndDeployFile(n, template, r)

SpecFiles == Init /\ [][NextFiles]_vars

\* the mapping the last call substituted with
CallMapping == with_app_name(FileApp, file_call.env)

\* positions of the last call's template holding a placeholder whose variable
\* is not in the mapping
Unresolved(i) ==
  /\ file_call.template[i].kind = "braced"
  /\ file_call.template[i].name \notin DOMAIN CallMapping

\* positions holding a ${VAR} placeholder whose variable is in the mapping
Resolvable(i) ==
  /\ file_call.template[i].kind = "braced"
  /\ IsIdentifier(file_call.template[i].name)
  /\ file_call.template[i].name \in DOMAIN CallMapping

HasUnresolved == \E i \in DOMAIN file_call.template : Unresolved(i)

\* C29: best-effort substitution. When a file with a placeholder whose variable
\* is not in the environment map (plus APP_NAME) is handled and no step of the
\* handling is made to fail, the call succeeds, the file is staged and copied to
\* the managed directory, the staged and the copied content keep every such
\* placeholder as written and have every resolvable placeholder replaced by the
\* mapped text.
C29_BestEffortSubstitution ==
  (file_pc \in {"deployed", "redeployed"} /\ HasUnresolved /\ file_call.outcome = "ok") =>
    /\ file_call.ok /\ file_call.staged /\ file_call.copied
    /\ file_call.name \in DOMAIN staged
    /\ Target(file_call.name) \in DOMAIN managed
    /\ managed[Target(file_call.name)] = staged[file_call.name]
    /\ Len(staged[file_call.name]) = Len(file_call.template)
    /\ \A i \in DOMAIN file_call.template :
         /\ Unresolved(i) => staged[file_call.name][i] = file_call.template[i]
         /\ Resolvable(i) =>
              staged[file_call.name][i] = Text(CallMapping[file_call.template[i].name])

\* a file with one placeholder that cannot be resolved and one that can was
\* deployed
C29_Witness ==
  /\ file_pc \in {"deployed", "redeployed"}
  /\ file_call.ok
  /\ \E i, j \in DOMAIN file_call.template : Unresolved(i) /\ Resolvable(j)
  /\ Target(file_call.name) \in DOMAIN managed

\* the step is a call of deploy_processed_file that copied over a target that
\* was there before
Overwrites ==
  /\ file_pc' # file_pc
  /\ file_pc' \in {"deployed", "redeployed"}
  /\ file_call'.copied
  /\ Target(file_call'.name) \in DOMAIN managed

\* C30: whenever deploy_processed_file overwrites an existing same-named file
\* of the managed directory, after the call the .bak sibling holds the content
\* the target had right before the call and the target holds the new processed
\* content.
C30_BackupBeforeOverwrite ==
  [][Overwrites =>
       /\ Backup(file_call'.name) \in DOMAIN managed'
       /\ managed'[Backup(file_call'.name)] = managed[Target(file_call'.name)]
       /\ managed'[Target(file_call'.name)] = file_call'.content]_vars

\* a target was overwritten with different content and its backup differs from it
C30_Witness ==
  /\ file_pc = "redeployed"
  /\ file_call.copied
  /\ Backup(file_call.name) \in DOMAIN managed
  /\ managed[Backup(file_call.name)] # managed[Target(file_call.name)]

\* the services whose start_service returned False in the current call
FailedStarts == {calls[i].arg : i \in {j \in DOMAIN calls :
                                 calls[j].op = "start_service" /\ calls[j].res = "false"}}

\* C31: when process_application has closed its Deployment as failed because a
\* service failed to start, the Deployment's error_message names a service
\* that failed to start: it is "Failed to start service S".
C31_StartFailureMessage ==
  (/\ pc = "returned"
   /\ deployment_id # None
   /\ ~raised
   /\ FailedStarts # {}
   /\ DeploymentStatus(deployments, deployment_id) = "failed") =>
    \E s \in FailedStarts :
      deployments[deployment_id].error_message = "Failed to start service " \o s

\* ---------------------------------------------------------------------------
\* StateManager.get_deployment_history
\* ---------------------------------------------------------------------------

\* C32: get_deployment_history(app) returns only that application's
\* deployments, most recently added first (a deployment added later precedes one
\* added earlier), at most limit of them, and the empty list for an application
\* with no deployments.
C32_DeploymentHistory ==
  \A a \in StoreApps, limit \in Limits :
    LET history == get_deployment_history(deployments, a, limit) IN
      /\ \A k \in DOMAIN history : deployments[history[k]].app_name = a
      /\ Len(history) <= limit
      /\ (\A i \in DOMAIN deployments : deployments[i].app_name # a) => history = <<>>
      /\ \A k \in DOMAIN history : \A l \in DOMAIN history : k < l => history[k] > history[l]

\* ---------------------------------------------------------------------------
\* StateManager.update_service and get_service_state called on their own
\* ---------------------------------------------------------------------------

\* faulty variant: the row of any application with that service name answers
get_service_state_by_service(svcs, a, s) ==
  IF \E k \in DOMAIN svcs : k[2] = s
    THEN <<svcs[CHOOSE k \in DOMAIN svcs : k[2] = s].state>>
    ELSE <<>>

\* get_service_state: the state column of the row, or nothing (the empty
\* sequence) when there is no row
get_service_state(svcs, a, s) ==
  IF <<a, s>> \in DOMAIN svcs THEN <<svcs[<<a, s>>].state>> ELSE <<>>

\* manager.py 275-335, with the arguments of the call recorded
ServiceUpdate(a, s, state, dep, container) ==
  /\ services' = update_service(services, a, s, state, dep, container)
  /\ svc_call' = [op |-> "update_service", app_name |-> a, service_name |-> s,
                  state |-> state, deployment_id |-> dep, container_id |-> container]
  /\ svc_last' = [k \in DOMAIN svc_last \cup {<<a, s>>} |->
                    IF k = <<a, s>> THEN state ELSE svc_last[k]]
  /\ UNCHANGED svc_read
  /\ UNCHANGED <<applications, deployments, error_log, health_checks, finished, fsVars,
                 gitVars, runVars, histVars, opVars, waitVars, passVars, mainVars,
                 statusVars, fileVars, faults>>

\* manager.py 337-358
ServiceGet(a, s) ==
  /\ svc_read' = [called |-> TRUE, app_name |-> a, service_name |-> s,
                  result |-> get_service_state(services, a, s)]
  /\ UNCHANGED <<svc_call, svc_last>>
  /\ UNCHANGED <<storeVars, fsVars, gitVars, runVars, histVars, opVars, waitVars, passVars,
                 mainVars, statusVars, fileVars, faults>>

NextServices ==
  \/ \E a \in StoreApps, s \in StoreServices, state \in StoreStates,
        dep \in {None} \cup (1..MaxStoreRows), container \in {None, 1} :
       ServiceUpdate(a, s, state, dep, container)
  \/ \E a \in StoreApps, s \in StoreServices : ServiceGet(a, s)

SpecServices == Init /\ [][NextServices]_vars

\* the step is an update_service call
UpdateStep ==
  /\ svc_call'.op = "update_service"
  /\ svc_call' # svc_call \/ services' # services

WrittenKey == <<svc_call'.app_name, svc_call'.service_name>>

\* C33: an update_service call made without a deployment_id (and without a
\* container_id, as start_application and stop_application call it) changes only
\* the state of an existing row and leaves its deployment_id and container_id as
\* they were; on a new row it stores a null deployment_id. No other row changes.
C33_NoDeploymentIdWrite ==
  [][(UpdateStep /\ svc_call'.deployment_id = None /\ svc_call'.container_id = None) =>
       /\ WrittenKey \in DOMAIN services'
       /\ services'[WrittenKey].state = svc_call'.state
       /\ IF WrittenKey \in DOMAIN services
            THEN /\ services'[WrittenKey].deployment_id = services[WrittenKey].deployment_id
                 /\ services'[WrittenKey].container_id = services[WrittenKey].container_id
            ELSE services'[WrittenKey].deployment_id = None
       /\ \A k \in DOMAIN services : k # WrittenKey => services'[k] = services[k]
       /\ DOMAIN services' = DOMAIN services \cup {WrittenKey}]_vars

\* a row that refers to a deployment and holds a container id was last written
\* by a call without either
C33_Witness ==
  /\ svc_call.op = "update_service"
  /\ svc_call.deployment_id = None
  /\ svc_call.container_id = None
  /\ <<svc_call.app_name, svc_call.service_name>> \in DOMAIN services
  /\ services[<<svc_call.app_name, svc_call.service_name>>].deployment_id # None
  /\ services[<<svc_call.app_name, svc_call.service_name>>].container_id # None
  /\ services[<<svc_call.app_name, svc_call.service_name>>].state = "stopped"

\* the step is a get_service_state call
ReadStep == svc_read'.called /\ svc_read' # svc_read

\* C34: get_service_state(app, service) returns nothing for a key that was
\* never written, and otherwise the state passed by the most recent
\* update_service call for that key, whatever was written to other keys.
C34_ServiceStateRead ==
  [][ReadStep =>
       LET k == <<svc_read'.app_name, svc_read'.service_name>> IN
         svc_read'.result = IF k \in DOMAIN svc_last THEN <<svc_last[k]>> ELSE <<>>]_vars

\* a key was read after another key had been written with a different state
C34_Witness ==
  /\ svc_read.called
  /\ svc_read.result = <<"stopped">>
  /\ \E k \in DOMAIN services :
       /\ k # <<svc_read.app_name, svc_read.service_name>>
       /\ services[k].state = "running"
  /\ svc_call.op = "update_service"
  /\ svc_call.app_name # svc_read.app_name

\* the error records with a service name that the step appends
NewServiceErrors == {e \in error_log' \ error_log : e.service_name # ""}

\* C35: set_last_error(app, service, msg) completes both of its writes: with
\* the error record it appends, the Service row of (app, service) has state
\* error.
C35_SetLastErrorBothWrites ==
  [][\A e \in NewServiceErrors :
       /\ <<e.app_name, e.service_name>> \in DOMAIN services'
       /\ services'[<<e.app_name, e.service_name>>].state = "error"]_vars

\* C36: process_application returns true if and only if the Deployment it
\* opened in that call has status success when it returns; it returns false
\* when it opened none.
C36_ReturnMatchesStatus ==
  pc = "returned" =>
    (ret <=> (/\ deployment_id # None
              /\ DeploymentStatus(deployments, deployment_id) = "success"))

\* a call returned true for a deployment with services, after an earlier call
\* of the same behaviour had returned false
C36_Witness ==
  /\ pc = "returned"
  /\ ret
  /\ deployment_id # None
  /\ deployed_services # <<>>
  /\ deployments[deployment_id].status = "success"
  /\ \E i \in DOMAIN deployments : deployments[i].status = "failed"

\* C37: after process_application(app) has opened a Deployment, the stored
\* Application row of app carries the description of the application's
\* configuration.
C37_DescriptionKept ==
  (pc \notin {"idle", "sync"} /\ deployment_id # None) =>
    /\ cur \in DOMAIN applications
    /\ applications[cur].description = config_description(cur)

\* C38: when process_application has returned success with at least one
\* deployed service, get_app_status_summary reports overall_status healthy for
\* the application, whatever earlier attempts left behind.
C38_HealthyAfterSuccess ==
  (pc = "returned" /\ ret /\ deployed_services # <<>>) =>
    get_app_status_summary(cur) = "healthy"

\* the step is a check_for_changes call
CheckStep == checks' = checks + 1

\* C39: when the fetch of a repository has failed in the current cycle,
\* has_changes answered true and check_for_changes memoized it: the repository
\* is in checked_repos and repos_with_changes, every check_for_changes of the
\* cycle for it returned true, and no check fetches it again before
\* reset_cycle.
C39_FetchFailureAssumesChanges ==
  /\ [](\A u \in fetch_failed :
          /\ u \in checked_repos
          /\ u \in repos_with_changes
          /\ returned_values[u] = {TRUE}
          /\ fetches[u] = 1)
  /\ [][\A u \in fetch_failed : CheckStep => fetches'[u] = fetches[u]]_vars

\* after a failed fetch of a repository whose remote does not differ, a second
\* application sharing the repository asked again in the same cycle
C39_Witness ==
  /\ "url1" \in fetch_failed
  /\ ~remote_differs["url1"]
  /\ {"app1", "app2"} \subseteq handles
  /\ checks = 3
  /\ returned_values["url1"] = {TRUE}
  /\ fetches["url1"] = 1

\* the step is a reset_cycle call
ResetStep == reset_from' # reset_from \/ (checks' = 0 /\ checks # 0)

\* C40: repos_with_changes is a subset of checked_repos in every state, and a
\* reset_cycle leaves both sets empty and the repositories handle map as it was.
C40_CycleSets ==
  /\ [](repos_with_changes \subseteq checked_repos)
  /\ [][ResetStep =>
          /\ checked_repos' = {}
          /\ repos_with_changes' = {}
          /\ repositories' = repositories
          /\ handles' = handles]_vars

\* a reset_cycle has emptied the two sets, which held both repositories, one
\* of them with changes, and both repositories are still known
C40_Witness ==
  /\ reset_from.checked_repos = {"url1", "url2"}
  /\ reset_from.repos_with_changes = {"url2"}
  /\ checked_repos = {}
  /\ repos_with_changes = {}
  /\ repositories = {"url1", "url2"}

====
